---------------------------- MODULE Spec2Model ----------------------------
(***************************************************************************)
(* A model of the PubMed citation extractor (extractTIABs.py) and its      *)
(* helpers.  Python strings are sequences of one-character strings, so     *)
(* that split, join, '%' formatting and indexing are computed and not      *)
(* assumed.  A Python call is modelled by its outcome: a record            *)
(* [exc, val] where exc = "None" means a normal return of val and any      *)
(* other exc names the exception that propagates out of the call.          *)
(***************************************************************************)
EXTENDS Integers, Sequences, FiniteSets, TLC

VARIABLES
    call,           \* the last call of a pure function: [op, arg, opt, res]
    mesh,           \* meshdata.mesh: uid -> [name, treenums]
    mesh_cache,     \* get_mesh_data._cache: [built, treenum_to_name]
    run_options,    \* the options of the run (process_options)
    stream,         \* the (event, element) items that iterparse delivers
    pos,            \* the index of the item the loop of process_stream is at
    cleared,        \* the indices of the elements on which clear() was called
    written,        \* the citations written so far: [index, PMID, text]
    output_count,   \* global output_count
    skipped_count,  \* global skipped_count
    pc,             \* process_stream: "idle", "running", "done" or "raised"
    map_count,      \* unicode2ascii.map_count: character -> replacements
    missing_mapping,    \* unicode2ascii.missing_mapping: character -> count
    returned,       \* the sum of the counts that process has returned
    entities,       \* the lines of the file entities.dat
    to_ascii_mapping,   \* to_ascii.mapping: [loaded, table]
    compiles        \* whether 'import unicode2ascii' finds a module that
                    \* the interpreter of the extractor compiles

streamvars == <<run_options, stream, pos, cleared, written, output_count,
                skipped_count, pc>>

asciivars == <<map_count, missing_mapping, returned, entities,
               to_ascii_mapping, compiles>>

vars == <<call, mesh, mesh_cache, streamvars, asciivars>>

---------------------------------------------------------------------------
(* Python outcomes *)

None == [none |-> TRUE]

Ok(v) == [exc |-> "None", val |-> v]

Raise(e) == [exc |-> e, val |-> <<>>]

IsOk(r) == r.exc = "None"

\* the value of an outcome handed on to F, an exception propagated
Bind(r, F(_)) == IF IsOk(r) THEN F(r.val) ELSE r

\* F applied to the value of an outcome, an exception propagated
MapOk(r, F(_)) == IF IsOk(r) THEN Ok(F(r.val)) ELSE r

\* Python's None where a string is expected: no string equals it, since every
\* element of a string is a single character
NoneStr == <<"None">>

---------------------------------------------------------------------------
(* Python string primitives, on sequences of characters *)

RECURSIVE Flatten(_)
\* ''.join(seq): the catenation of a sequence of strings
Flatten(ss) ==
    IF ss = <<>> THEN <<>> ELSE Head(ss) \o Flatten(Tail(ss))

RECURSIVE Join(_, _)
\* sep.join(seq)
Join(sep, ss) ==
    IF ss = <<>> THEN <<>>
    ELSE IF Len(ss) = 1 THEN ss[1]
    ELSE ss[1] \o sep \o Join(sep, Tail(ss))

\* s.find(c) for a one-character c: the first position of c in s, 0 if none
Find(s, c) ==
    IF \A i \in 1..Len(s) : s[i] # c THEN 0
    ELSE CHOOSE i \in 1..Len(s) : s[i] = c /\ \A j \in 1..(i - 1) : s[j] # c

RECURSIVE Split(_, _)
\* s.split(c) for a one-character separator: always at least one piece
Split(s, c) ==
    IF Find(s, c) = 0 THEN <<s>>
    ELSE <<SubSeq(s, 1, Find(s, c) - 1)>> \o
         Split(SubSeq(s, Find(s, c) + 1, Len(s)), c)

\* s.endswith(c) for a one-character c
EndsWith(s, c) == s # <<>> /\ s[Len(s)] = c

WhiteSpace == {" ", "\n", "\t"}

\* s.isspace(): non-empty and only whitespace
IsSpace(s) == s # <<>> /\ \A i \in 1..Len(s) : s[i] \in WhiteSpace

\* s.strip() != ''
StripNonEmpty(s) == \E i \in 1..Len(s) : s[i] \notin WhiteSpace

---------------------------------------------------------------------------
(* MeSH hierarchy expansion *)

mesh_ancestors_noroot(treenum) ==
    IF treenum = <<>> THEN Raise("IndexError")
    ELSE LET parts == Split(treenum, ".")
         IN  Ok([i \in 1..Len(parts) |-> Join(<<".">>, SubSeq(parts, 1, i))])

\* mesh_ancestors: the root letter, then every dotted prefix
mesh_ancestors(treenum) ==
    IF treenum = <<>> THEN Raise("IndexError")
    ELSE LET parts == Split(treenum, ".")
         IN  Ok(<< <<treenum[1]>> >> \o
                [i \in 1..Len(parts) |-> Join(<<".">>, SubSeq(parts, 1, i))])


\* the first exception of a sequence of outcomes, else Ok of their values
RECURSIVE AllOk(_)
AllOk(rs) ==
    IF rs = <<>> THEN Ok(<<>>)
    ELSE Bind(Head(rs), LAMBDA v :
            MapOk(AllOk(Tail(rs)), LAMBDA vs : <<v>> \o vs))

\* Descriptor = namedtuple('Descriptor', 'id name major')
Descriptor(id, name, major) == [id |-> id, name |-> name, major |-> major]

\* Qualifier = namedtuple('Qualifier', 'id name major'): a tuple, so two
\* qualifiers are equal only when id, name and major are all equal
Qualifier(id, name, major) == [id |-> id, name |-> name, major |-> major]

\* MeshHeading(descriptor, qualifiers)
MeshHeading(d, quals) == [descriptor |-> d, qualifiers |-> quals]

\* MeshHeading.descriptor_qualifier_pairs
descriptor_qualifier_pairs(h) ==
    LET quals == IF h.qualifiers # <<>> THEN h.qualifiers ELSE <<None>>
    IN  [i \in 1..Len(quals) |-> <<h.descriptor, quals[i]>>]

Star(major) == IF major THEN <<"*">> ELSE <<>>

\* the direct rendering in the form 'did (dname)/qid (qname)'
heading_texts_split(h) ==
    LET pairs == descriptor_qualifier_pairs(h)
        one(p) ==
            LET d == p[1]
                q == p[2]
                did == d.id \o Star(d.major)
                dname == d.name \o Star(d.major)
            IN  IF q = None
                THEN did \o <<" ", "(">> \o dname \o <<")">>
                ELSE did \o <<" ", "(">> \o dname \o <<")", "/">> \o
                     (q.id \o Star(q.major)) \o <<" ", "(">> \o
                     (q.name \o Star(q.major)) \o <<")">>
    IN  [i \in 1..Len(pairs) |-> one(pairs[i])]

\* the direct rendering with one marker per heading: the qualifier is
\* starred when the descriptor is major
heading_texts_shared_marker(h) ==
    LET pairs == descriptor_qualifier_pairs(h)
        one(p) ==
            LET d == p[1]
                q == p[2]
                did == d.id \o Star(d.major)
                dname == d.name \o Star(d.major)
            IN  IF q = None
                THEN did \o <<" ", "(">> \o dname \o <<")">>
                ELSE did \o <<"/">> \o (q.id \o Star(d.major)) \o <<" ", "(">> \o
                     dname \o <<"/">> \o (q.name \o Star(d.major)) \o <<")">>
    IN  [i \in 1..Len(pairs) |-> one(pairs[i])]

\* MeshHeading.heading_texts: '%s (%s)' or '%s/%s (%s/%s)' per pair
heading_texts(h) ==
    LET pairs == descriptor_qualifier_pairs(h)
        one(p) ==
            LET d == p[1]
                q == p[2]
                did == d.id \o Star(d.major)
                dname == d.name \o Star(d.major)
            IN  IF q = None
                THEN did \o <<" ", "(">> \o dname \o <<")">>
                ELSE LET qid == q.id \o Star(q.major)
                         qname == q.name \o Star(q.major)
                     IN  did \o <<"/">> \o qid \o <<" ", "(">> \o
                         dname \o <<"/">> \o qname \o <<")">>
    IN  [i \in 1..Len(pairs) |-> one(pairs[i])]

\* the hierarchy codes of a registry entry, as a set
CodesOf(obj) == {obj.treenums[i] : i \in 1..Len(obj.treenums)}

RECURSIVE NameMapsOver(_, _)
NameMapsOver(codes, reg) ==
    IF codes = {} THEN {[t \in {} |-> <<>>]}
    ELSE LET t == CHOOSE x \in codes : TRUE
             names == {reg[u].name : u \in {v \in DOMAIN reg : t \in CodesOf(reg[v])}}
         IN  {(t :> n) @@ f : n \in names, f \in NameMapsOver(codes \ {t}, reg)}

\* the treenum -> name maps that get_mesh_data can build from a registry:
\* treenum_to_name[tnum] = name for every entry and code, where dict
\* iteration order decides which owner of a shared code writes last
TreenumNameMaps(reg) ==
    NameMapsOver(UNION {CodesOf(reg[u]) : u \in DOMAIN reg}, reg)

\* tree_number_text when a code without display name is rendered under its
\* own code instead of failing
tree_number_text_lenient(treenum, qualifier, treenum_to_name) ==
    LET name == IF treenum \in DOMAIN treenum_to_name
                THEN treenum_to_name[treenum] ELSE treenum
        num == IF qualifier # None
               THEN treenum \o <<"/">> \o qualifier.id ELSE treenum
        text == IF qualifier # None
                THEN name \o <<"/">> \o qualifier.name ELSE name
    IN  Ok(num \o <<" ", "(">> \o text \o <<")">>)

\* tree_number_text(treenum, qualifier, treenum_to_name)
tree_number_text(treenum, qualifier, treenum_to_name) ==
    IF treenum \notin DOMAIN treenum_to_name THEN Raise("KeyError")
    ELSE LET name == treenum_to_name[treenum]
             num == IF qualifier # None
                    THEN treenum \o <<"/">> \o qualifier.id ELSE treenum
             text == IF qualifier # None
                     THEN name \o <<"/">> \o qualifier.name ELSE name
         IN  Ok(num \o <<" ", "(">> \o text \o <<")">>)

\* the keys (t, q) of one hierarchy code, for t in mesh_ancestors(treenum)
keys_of_treenum(treenum, q) ==
    MapOk(mesh_ancestors(treenum), LAMBDA a : [i \in 1..Len(a) |-> <<a[i], q>>])

\* the keys of one (d, q) pair when a descriptor that the registry does not
\* have is passed over in silence
keys_of_pair_lenient(d, q, uid_to_node) ==
    IF d.id \notin DOMAIN uid_to_node THEN Ok(<<>>)
    ELSE MapOk(AllOk([i \in 1..Len(uid_to_node[d.id].treenums) |->
                        keys_of_treenum(uid_to_node[d.id].treenums[i], q)]),
               Flatten)

\* the keys of one (d, q) pair, for treenum in uid_to_node[d.id]['treenums']
keys_of_pair(d, q, uid_to_node) ==
    IF d.id \notin DOMAIN uid_to_node THEN Raise("KeyError")
    ELSE MapOk(AllOk([i \in 1..Len(uid_to_node[d.id].treenums) |->
                        keys_of_treenum(uid_to_node[d.id].treenums[i], q)]),
               Flatten)

\* the (t, q) keys in the order the loops of tree_numbers produce them
produced_keys(h, uid_to_node) ==
    MapOk(AllOk([i \in 1..Len(descriptor_qualifier_pairs(h)) |->
                    keys_of_pair(descriptor_qualifier_pairs(h)[i][1],
                                 descriptor_qualifier_pairs(h)[i][2], uid_to_node)]),
          Flatten)

RECURSIVE OrderedKeysFrom(_, _)
OrderedKeysFrom(ks, acc) ==
    IF ks = <<>> THEN acc
    ELSE OrderedKeysFrom(Tail(ks),
            IF \E i \in 1..Len(acc) : acc[i] = Head(ks) THEN acc
            ELSE Append(acc, Head(ks)))

\* the keys of an OrderedDict after expanded[k] = True for each k in turn
OrderedDictKeys(ks) == OrderedKeysFrom(ks, <<>>)

\* [tree_number_text(t, q, treenum_name) for t, q in expanded]
render_keys(expanded, treenum_name) ==
    AllOk([i \in 1..Len(expanded) |->
              tree_number_text(expanded[i][1], expanded[i][2], treenum_name)])

\* MeshHeading.tree_numbers, given the registry and the derived index
tree_numbers(h, uid_to_node, treenum_name) ==
    Bind(produced_keys(h, uid_to_node),
         LAMBDA ks : render_keys(OrderedDictKeys(ks), treenum_name))

\* options.<name>, false for options=None
Opt(options, name) == options # None /\ options[name]

\* MeshHeading.text with the expansion never used
MeshHeading_text_direct(h, options, uid_to_node, treenum_name) ==
    Ok(Join(<<"\t">>, heading_texts(h)))

\* MeshHeading.text
MeshHeading_text(h, options, uid_to_node, treenum_name) ==
    IF ~Opt(options, "mesh_trees")
    THEN Ok(Join(<<"\t">>, heading_texts(h)))
    ELSE MapOk(tree_numbers(h, uid_to_node, treenum_name),
               LAMBDA tn : Join(<<"\t">>, tn))

---------------------------------------------------------------------------
(* Abstract sections, chemicals and the plain-text rendering of a citation *)

\* AbstractSection.__init__(text, label=None): None becomes ''
AbstractSection_init(text, label) ==
    Ok([text  |-> IF text # NoneStr THEN text ELSE <<>>,
        label |-> IF label # NoneStr THEN label ELSE <<>>])

\* AbstractSection._colon
Section_colon(options) ==
    IF Opt(options, "no_colon") THEN <<>>
    ELSE IF Opt(options, "tokenize") THEN <<" ", ":">>
    ELSE <<":">>

\* AbstractSection._separator with the single-line form in every mode
Section_separator_space(sec, options) ==
    IF sec.label = <<>> THEN <<>>
    ELSE Section_colon(options) \o
         (IF sec.text = <<>> \/ IsSpace(sec.text) THEN <<>> ELSE <<" ">>)

\* AbstractSection._separator
Section_separator(sec, options) ==
    IF sec.label = <<>> THEN <<>>
    ELSE LET colon == Section_colon(options)
             space == IF sec.text = <<>> \/ IsSpace(sec.text) THEN <<>>
                      ELSE IF ~Opt(options, "single_line_abstract") THEN <<"\n">>
                      ELSE <<" ">>
         IN  colon \o space

\* AbstractSection.text
Section_text(sec, options) ==
    sec.label \o Section_separator(sec, options) \o sec.text

\* Citation.abstract_text
abstract_text(cit, options) ==
    LET section_texts == [i \in 1..Len(cit.sections) |->
                            Section_text(cit.sections[i], options)]
        space == IF ~Opt(options, "single_line_abstract") THEN <<"\n">> ELSE <<" ">>
    IN  Join(space, section_texts)

\* Chemical.text: the registry number is not represented
Chemical_text(c, options) == c.id \o <<" ", "(">> \o c.name \o <<")">>

\* the expansion of all the headings of a citation merged into one
\* duplicate-free sequence of fields
RECURSIVE DistinctFields(_, _)
DistinctFields(fs, acc) ==
    IF fs = <<>> THEN acc
    ELSE DistinctFields(Tail(fs),
            IF \E i \in 1..Len(acc) : acc[i] = Head(fs) THEN acc
            ELSE Append(acc, Head(fs)))

mesh_line_merged(cit, options, uid_to_node, treenum_name) ==
    IF ~Opt(options, "mesh_trees")
    THEN AllOk([i \in 1..Len(cit.mesh) |->
                   MeshHeading_text(cit.mesh[i], options, uid_to_node, treenum_name)])
    ELSE MapOk(AllOk([i \in 1..Len(cit.mesh) |->
                        tree_numbers(cit.mesh[i], uid_to_node, treenum_name)]),
               LAMBDA ms : DistinctFields(Flatten(ms), <<>>))

\* [m.text(options) for m in self.mesh]
mesh_line(cit, options, uid_to_node, treenum_name) ==
    AllOk([i \in 1..Len(cit.mesh) |->
              MeshHeading_text(cit.mesh[i], options, uid_to_node, treenum_name)])

sMeSHTerms == <<"M","e","S","H"," ","T","e","r","m","s",":">>
sSubstances == <<"S","u","b","s","t","a","n","c","e","s",":">>

\* the lines of Citation.text, given the texts of the headings
citation_lines(cit, options, mesh_texts) ==
    (IF Opt(options, "include_id") THEN <<cit.PMID>> ELSE <<>>) \o
    (IF ~Opt(options, "no_title") THEN <<cit.title>> ELSE <<>>) \o
    (IF ~Opt(options, "no_abstract")
     THEN <<abstract_text(cit, options)>> ELSE <<>>) \o
    (IF Opt(options, "mesh_headings")
     THEN <<Join(<<"\t">>, <<sMeSHTerms>> \o mesh_texts)>> ELSE <<>>) \o
    (IF Opt(options, "substances")
     THEN <<Join(<<"\t">>, <<sSubstances>> \o
                [i \in 1..Len(cit.chemicals) |->
                    Chemical_text(cit.chemicals[i], options)])>>
     ELSE <<>>) \o
    (IF Opt(options, "metadata")
     THEN [i \in 1..Len(cit.metadata) |->
              cit.metadata[i][1] \o <<"\t">> \o cit.metadata[i][2]]
     ELSE <<>>)

\* text + '\n' unless text.endswith('\n')
newline_terminated(text) ==
    IF ~EndsWith(text, "\n") THEN text \o <<"\n">> ELSE text

\* Citation.text
Citation_text(cit, options, uid_to_node, treenum_name) ==
    MapOk(IF Opt(options, "mesh_headings")
          THEN mesh_line(cit, options, uid_to_node, treenum_name)
          ELSE Ok(<<>>),
          LAMBDA mesh_texts :
            newline_terminated(Join(<<"\n">>, citation_lines(cit, options, mesh_texts))))

---------------------------------------------------------------------------
(* The element tree of one citation (xml.etree.ElementTree) *)

\* the attributes the extractor reads, NoneStr for one that is not given
NoAttrib ==
    [Label |-> NoneStr, UI |-> NoneStr, MajorTopicYN |-> NoneStr,
     DateType |-> NoneStr]

\* an element: tag, attributes, text before the first child (NoneStr when
\* absent), children, and the text that follows its end tag in its parent
ElementT(tag, attrib, text, children, tail) ==
    [tag |-> tag, attrib |-> attrib, text |-> text, children |-> children,
     tail |-> tail]

Element(tag, attrib, text, children) ==
    ElementT(tag, attrib, text, children, NoneStr)

\* an element without attributes or children
Leaf(tag, text) == Element(tag, NoAttrib, text, <<>>)

\* a text or tail as itertext yields it: nothing for None
TextOf(t) == IF t = NoneStr THEN <<>> ELSE t

\* element.attrib.get(name)
AttribGet(e, name) == e.attrib[name]

RECURSIVE inner_text(_)
\* inner_text: ''.join(element.itertext())
inner_text(e) ==
    TextOf(e.text) \o
    Flatten([i \in 1..Len(e.children) |->
                inner_text(e.children[i]) \o TextOf(e.children[i].tail)])

\* element.findall(tag): the children with that tag, in document order
findall(e, tag) == SelectSeq(e.children, LAMBDA c : c.tag = tag)

RECURSIVE Descendants(_)
Descendants(e) ==
    Flatten([i \in 1..Len(e.children) |->
                <<e.children[i]>> \o Descendants(e.children[i])])

\* element.findall('.//tag'): the descendants with that tag
findall_recursive(e, tag) == SelectSeq(Descendants(e), LAMBDA c : c.tag = tag)

\* the only element of found: KeyError if none, FormatError if several
only_of(found) ==
    IF found = <<>> THEN Raise("KeyError")
    ELSE IF Len(found) > 1 THEN Raise("FormatError")
    ELSE Ok(found[1])

\* find_only(element, match)
find_only(e, tag) == only_of(findall(e, tag))

\* find_abstract when several OtherAbstract elements are refused
find_abstract_of_strict(article, citation) ==
    IF Len(findall(article, "Abstract")) \notin {0, 1} THEN Raise("TypeError")
    ELSE IF findall(article, "Abstract") # <<>>
    THEN Ok(findall(article, "Abstract")[1])
    ELSE IF Len(findall(citation, "OtherAbstract")) > 1 THEN Raise("FormatError")
    ELSE IF findall(citation, "OtherAbstract") # <<>>
    THEN Ok(findall(citation, "OtherAbstract")[1])
    ELSE Ok(None)

\* find_abstract, given the Article: the Abstract of the Article, else the
\* first OtherAbstract of the citation, else None.  With several Abstract
\* elements the assertion fails, and its message, len(abstracts, PMID),
\* raises TypeError
find_abstract_of(article, citation) ==
    IF Len(findall(article, "Abstract")) \notin {0, 1} THEN Raise("TypeError")
    ELSE IF findall(article, "Abstract") # <<>>
    THEN Ok(findall(article, "Abstract")[1])
    ELSE IF findall(citation, "OtherAbstract") # <<>>
    THEN Ok(findall(citation, "OtherAbstract")[1])
    ELSE Ok(None)

\* find_abstract(citation, PMID)
find_abstract(citation) ==
    Bind(find_only(citation, "Article"),
         LAMBDA article : find_abstract_of(article, citation))

\* the title once ArticleTitle was read: VernacularTitle when it is empty,
\* '' when that is missing or empty too
title_fallback(title, article) ==
    IF title # <<>> THEN Ok(title)
    ELSE IF find_only(article, "VernacularTitle").exc = "KeyError" THEN Ok(<<>>)
    ELSE MapOk(find_only(article, "VernacularTitle"), inner_text)

\* the title of Citation.from_xml
resolve_title(article) ==
    Bind(find_only(article, "ArticleTitle"),
         LAMBDA at : title_fallback(inner_text(at), article))

\* the AbstractText blocks with the assertion left out
abstract_texts_unchecked(abstract) ==
    IF abstract = None THEN Ok(<<>>)
    ELSE Ok(findall(abstract, "AbstractText"))

\* the AbstractText blocks of the resolved abstract: none without an
\* abstract, and an assertion that a container is not empty
abstract_texts(abstract) ==
    IF abstract = None THEN Ok(<<>>)
    ELSE IF Len(findall(abstract, "AbstractText")) = 0 THEN Raise("AssertionError")
    ELSE Ok(findall(abstract, "AbstractText"))

sUNLABELLED == <<"U","N","L","A","B","E","L","L","E","D">>

\* the text of AbstractSection.from_xml: '' unless more than whitespace
section_text_of(e) ==
    IF inner_text(e) # <<>> /\ StripNonEmpty(inner_text(e))
    THEN inner_text(e) ELSE <<>>

\* the label of AbstractSection.from_xml: 'UNLABELLED' reads as ''
section_label_of(e) ==
    IF AttribGet(e, "Label") = sUNLABELLED THEN <<>> ELSE AttribGet(e, "Label")

\* AbstractSection.from_xml(element, PMID)
AbstractSection_from_xml(e) ==
    IF section_text_of(e) = <<>> /\ section_label_of(e) \in {<<>>, NoneStr}
    THEN Raise("EmptySection")
    ELSE AbstractSection_init(section_text_of(e), section_label_of(e))

\* the sections when every block is made a section, empty or not
sections_of_every_block(abstractTexts) ==
    [i \in 1..Len(abstractTexts) |->
        AbstractSection_init(section_text_of(abstractTexts[i]),
                             section_label_of(abstractTexts[i])).val]

\* the sections of Citation.from_xml: an EmptySection is caught and the
\* block left out
sections_of(abstractTexts) ==
    LET made == SelectSeq([i \in 1..Len(abstractTexts) |->
                              AbstractSection_from_xml(abstractTexts[i])], IsOk)
    IN  [i \in 1..Len(made) |-> made[i].val]

\* the list element of find_mesh_headings and find_chemicals: [] without
\* a list, an assertion that there is one list only
list_children(citation, list_tag, item_tag) ==
    IF findall(citation, list_tag) = <<>> THEN Ok(<<>>)
    ELSE IF Len(findall(citation, list_tag)) # 1 THEN Raise("AssertionError")
    ELSE Ok(findall(findall(citation, list_tag)[1], item_tag))

\* find_mesh_headings(citation, PMID)
find_mesh_headings(citation) == list_children(citation, "MeshHeadingList", "MeshHeading")

\* find_chemicals(citation, PMID)
find_chemicals(citation) == list_children(citation, "ChemicalList", "Chemical")

\* Descriptor or Qualifier of a DescriptorName or QualifierName element
name_of(e) == [id |-> AttribGet(e, "UI"), name |-> e.text,
               major |-> AttribGet(e, "MajorTopicYN") = <<"Y">>]

\* MeshHeading.from_xml
MeshHeading_from_xml(e) ==
    MapOk(find_only(e, "DescriptorName"),
          LAMBDA desc : MeshHeading(name_of(desc),
                            [i \in 1..Len(findall(e, "QualifierName")) |->
                                name_of(findall(e, "QualifierName")[i])]))

\* Chemical.from_xml
Chemical_from_xml(e) ==
    Bind(find_only(e, "NameOfSubstance"), LAMBDA id_name :
        MapOk(find_only(e, "RegistryNumber"), LAMBDA reg :
            [id |-> AttribGet(id_name, "UI"), name |-> id_name.text,
             regnum |-> reg.text]))

\* month_abbr_map
month_abbr_map ==
    (<<"J","a","n">> :> <<"0","1">>) @@ (<<"F","e","b">> :> <<"0","2">>) @@
    (<<"M","a","r">> :> <<"0","3">>) @@ (<<"A","p","r">> :> <<"0","4">>) @@
    (<<"M","a","y">> :> <<"0","5">>) @@ (<<"J","u","n">> :> <<"0","6">>) @@
    (<<"J","u","l">> :> <<"0","7">>) @@ (<<"A","u","g">> :> <<"0","8">>) @@
    (<<"S","e","p">> :> <<"0","9">>) @@ (<<"O","c","t">> :> <<"1","0">>) @@
    (<<"N","o","v">> :> <<"1","1">>) @@ (<<"D","e","c">> :> <<"1","2">>)

Digits == {"0", "1", "2", "3", "4", "5", "6", "7", "8", "9"}

\* s.isdigit()
IsDigit(s) == s # <<>> /\ \A i \in 1..Len(s) : s[i] \in Digits

\* values.pop(tag, None): the text of the first child with that tag
first_value(e, tag) ==
    IF findall(e, tag) = <<>> THEN NoneStr ELSE findall(e, tag)[1].text

\* the month of date_string when no month is translated
month_value_unchanged(month) == month

\* the month of date_string: a name of month_abbr_map becomes its number
month_value(month) ==
    IF month # NoneStr /\ ~IsDigit(month) /\ month \in DOMAIN month_abbr_map
    THEN month_abbr_map[month] ELSE month

\* the result of date_string from its four values
date_of(date, year, month, day) ==
    IF date # NoneStr THEN date
    ELSE IF year = NoneStr THEN <<>>
    ELSE IF month = NoneStr THEN year
    ELSE IF day = NoneStr THEN year \o <<"-">> \o month
    ELSE year \o <<"-">> \o month \o <<"-">> \o day

\* date_string(element, PMID, expect_full_date)
date_string(e) ==
    date_of(first_value(e, "MedlineDate"), first_value(e, "Year"),
            month_value(first_value(e, "Month")), first_value(e, "Day"))

sDateCreated == <<"D","a","t","e","C","r","e","a","t","e","d">>
sDateCompleted == <<"D","a","t","e","C","o","m","p","l","e","t","e","d">>
sPubDate == <<"P","u","b","D","a","t","e">>
sEPubDate == <<"E","P","u","b","D","a","t","e">>
sElectronic == <<"E","l","e","c","t","r","o","n","i","c">>

\* the entry of find_metadata for DateCreated or DateCompleted: none when
\* the element is missing
citation_date(found, key) ==
    IF found.exc = "KeyError" THEN Ok(<<>>)
    ELSE MapOk(found, LAMBDA e : << <<key, date_string(e)>> >>)

\* the EPubDate entry: the last ArticleDate with DateType="Electronic"
epub_date(electronic) ==
    IF electronic = <<>> THEN <<>>
    ELSE << <<sEPubDate, date_string(electronic[Len(electronic)])>> >>

\* find_metadata(citation, PMID): the (key, date) entries in insertion order
find_metadata(citation) ==
    Bind(citation_date(find_only(citation, "DateCreated"), sDateCreated), LAMBDA created :
    Bind(citation_date(find_only(citation, "DateCompleted"), sDateCompleted), LAMBDA completed :
    Bind(find_only(citation, "Article"), LAMBDA article :
    MapOk(only_of(findall_recursive(article, "PubDate")), LAMBDA pubdate :
        created \o completed \o << <<sPubDate, date_string(pubdate)>> >> \o
        epub_date(SelectSeq(findall(article, "ArticleDate"),
                    LAMBDA e : AttribGet(e, "DateType") = sElectronic))))))

\* Citation(PMID, title, sections, mesh, chemicals, metadata)
Citation(PMID, title, sections, mesh_, chemicals, metadata) ==
    [PMID |-> PMID, title |-> title, sections |-> sections, mesh |-> mesh_,
     chemicals |-> chemicals, metadata |-> metadata]

\* Citation.from_xml(element)
Citation_from_xml(element) ==
    Bind(find_only(element, "PMID"), LAMBDA pmid :
    Bind(find_only(element, "Article"), LAMBDA article :
    Bind(resolve_title(article), LAMBDA title :
    Bind(find_abstract(element), LAMBDA abstract :
    Bind(abstract_texts(abstract), LAMBDA abstractTexts :
    Bind(find_mesh_headings(element), LAMBDA mesh_headings :
    Bind(AllOk([i \in 1..Len(mesh_headings) |->
                  MeshHeading_from_xml(mesh_headings[i])]), LAMBDA mesh_ :
    Bind(find_chemicals(element), LAMBDA chemical_list :
    Bind(AllOk([i \in 1..Len(chemical_list) |->
                  Chemical_from_xml(chemical_list[i])]), LAMBDA chemicals :
    MapOk(find_metadata(element), LAMBDA metadata :
        Citation(pmid.text, title, sections_of(abstractTexts), mesh_,
                 chemicals, metadata)))))))))))

---------------------------------------------------------------------------
(* unicode2ascii.py: characters, mapping tables and the transducer.  A     *)
(* character is a string: a printable 7-bit character is itself, any other *)
(* character is named by its code point, "U+00E9".                         *)

\* the printable 7-bit characters in the order of their codes, from 32; the
\* grave accent is named by its code point
Printable ==
    <<" ", "!", "\"", "#", "$", "%", "&", "'", "(", ")", "*", "+", ",", "-",
      ".", "/", "0", "1", "2", "3", "4", "5", "6", "7", "8", "9", ":", ";",
      "<", "=", ">", "?", "@", "A", "B", "C", "D", "E", "F", "G", "H", "I",
      "J", "K", "L", "M", "N", "O", "P", "Q", "R", "S", "T", "U", "V", "W",
      "X", "Y", "Z", "[", "\\", "]", "^", "_", "U+0060", "a", "b", "c", "d", "e",
      "f", "g", "h", "i", "j", "k", "l", "m", "n", "o", "p", "q", "r", "s",
      "t", "u", "v", "w", "x", "y", "z", "{", "|", "}", "~">>

\* the backspace character '\b', the boundary marker of a table entry
cBS == "U+0008"

\* e with acute accent, the multiplication sign, the Greek letter alpha
cE9 == "U+00E9"
cD7 == "U+00D7"
c3B1 == "U+03B1"

\* the codes of the characters that are named
NamedOrd ==
    (cBS :> 8) @@ ("\t" :> 9) @@ ("\n" :> 10) @@
    ("U+00D7" :> 215) @@ ("U+00E9" :> 233) @@ ("U+03B1" :> 945) @@
    ("U+2014" :> 8212) @@ ("U+1D6FC" :> 120572)

\* ord(c)
ord(c) ==
    IF c \in DOMAIN NamedOrd THEN NamedOrd[c]
    ELSE 31 + (CHOOSE i \in 1..Len(Printable) : Printable[i] = c)

\* the named characters that are letters: U+00E9 (e acute), U+03B1 (alpha)
\* and U+1D6FC (mathematical italic alpha); U+00D7 is the multiplication
\* sign and U+2014 the em dash
NamedLetters == {"U+00E9", "U+03B1", "U+1D6FC"}

\* word_char.match(c): '^\w$' with re.U, an alphanumeric or the underscore
word_char(c) ==
    \/ c \in NamedLetters
    \/ /\ c \notin DOMAIN NamedOrd
       /\ \/ ord(c) \in 48..57
          \/ ord(c) \in 65..90
          \/ ord(c) \in 97..122
          \/ c = "_"

\* the absent neighbour of a character: prev or next_ is None
NoChar == "None"

HexDigit == <<"0", "1", "2", "3", "4", "5", "6", "7", "8", "9",
              "A", "B", "C", "D", "E", "F">>

RECURSIVE HexOf(_)
\* '%X' % n
HexOf(n) ==
    IF n < 16 THEN <<HexDigit[n + 1]>>
    ELSE Append(HexOf(n \div 16), HexDigit[(n % 16) + 1])

RECURSIVE ZeroFill(_, _)
\* the digits padded with zeros on the left to at least the given width
ZeroFill(digits, width) ==
    IF Len(digits) >= width THEN digits ELSE ZeroFill(<<"0">> \o digits, width)

\* "<%.4X>" % ord(c) with fewer digits than the code needs padded to two
escape_two_digits(c) == <<"<">> \o ZeroFill(HexOf(ord(c)), 2) \o <<">">>

\* "<%.4X>" % ord(c)
escape_of(c) == <<"<">> \o ZeroFill(HexOf(ord(c)), 4) \o <<">">>

\* a dict in insertion order: a sequence of [key, value] without two
\* entries of one key
DictKeys(d) == {d[i].key : i \in 1..Len(d)}

\* d.get(k, 0)
DictGet(d, k) ==
    IF k \in DictKeys(d)
    THEN d[CHOOSE i \in 1..Len(d) : d[i].key = k].value
    ELSE 0

\* d[k] = v
DictSet(d, k, v) ==
    IF k \in DictKeys(d)
    THEN [i \in 1..Len(d) |-> IF d[i].key = k THEN [key |-> k, value |-> v]
                              ELSE d[i]]
    ELSE Append(d, [key |-> k, value |-> v])

RECURSIVE DictSum(_)
\* sum(d.values())
DictSum(d) == IF d = <<>> THEN 0 ELSE d[1].value + DictSum(Tail(d))

\* the tally with the entry of c set to 1
count_reset(d, c) == DictSet(d, c, 1)

\* d[c] = d.get(c, 0) + 1
count_up(d, c) == DictSet(d, c, DictGet(d, c) + 1)

\* the space that stands for a boundary marker whatever the neighbour is
boundary_space_always(neighbour) == <<" ">>

\* ' ' if the neighbour is there and is a word character, else ''
boundary_space(neighbour) ==
    IF neighbour # NoChar /\ word_char(neighbour) THEN <<" ">> ELSE <<>>

\* the leading marker of map_character
leading_resolved(prev, mapping) ==
    IF mapping[1] = cBS THEN boundary_space(prev) \o Tail(mapping)
    ELSE mapping

\* the trailing marker of map_character
trailing_resolved(next_, mapping) ==
    IF mapping # <<>> /\ mapping[Len(mapping)] = cBS
    THEN SubSeq(mapping, 1, Len(mapping) - 1) \o boundary_space(next_)
    ELSE mapping

\* map_character(prev, char, next_, mapping)
map_character(prev, char, next_, mapping) ==
    IF mapping = <<>> THEN mapping
    ELSE trailing_resolved(next_, leading_resolved(prev, mapping))

\* ord(c) >= 128 taken to hold of every character
beyond_ascii_always(c) == TRUE

\* ord(c) >= 128: higher than 7-bit ASCII
beyond_ascii(c) == ord(c) >= 128

\* the previous character when it is the last one that was written
prev_as_written(curr, written_) ==
    IF written_ = <<>> THEN NoChar ELSE written_[Len(written_)]

\* prev = curr: the previous character is the one that was read
prev_after(curr, written_) == curr

\* the state of the transducer: what was written, the count of characters
\* without mapping, the two global tallies and the previous character
Transducer(out, missing_count, map_count_, missing_mapping_, prev) ==
    [out |-> out, missing_count |-> missing_count, map_count |-> map_count_,
     missing_mapping |-> missing_mapping_, prev |-> prev]

\* out.write(c); prev = curr
written_char(st, curr, c, missing) ==
    Transducer(st.out \o c, st.missing_count + missing, st.map_count,
               st.missing_mapping, prev_after(curr, c))

\* one round of the inner loop of process
process_char(st, c, next_, mapping) ==
    IF ~beyond_ascii(c) THEN written_char(st, c, <<c>>, 0)
    ELSE IF c \in DOMAIN mapping
    THEN written_char([st EXCEPT !.map_count = count_up(st.map_count, c)],
                      c, map_character(st.prev, c, next_, mapping[c]), 0)
    ELSE written_char([st EXCEPT !.missing_mapping =
                                     count_up(st.missing_mapping, c)],
                      c, escape_of(c), 1)

\* the second element of the i-th pair of pairwise(line)
next_of(line, i) == IF i < Len(line) THEN line[i + 1] ELSE NoChar

RECURSIVE process_line(_, _, _, _)
\* the inner loop of process from the i-th character of the line
process_line(st, line, i, mapping) ==
    IF i > Len(line) THEN st
    ELSE process_line(process_char(st, line[i], next_of(line, i), mapping),
                      line, i + 1, mapping)

RECURSIVE process_lines(_, _, _)
\* the outer loop of process: prev = None at the start of every line
process_lines(st, f, mapping) ==
    IF f = <<>> THEN st
    ELSE process_lines(process_line([st EXCEPT !.prev = NoChar], f[1], 1, mapping),
                       Tail(f), mapping)

\* process(f, out, mapping) with the global tallies as they are at the
\* call: what is written, the value returned, and the tallies afterwards
process(f, mapping, map_count_, missing_mapping_) ==
    process_lines(Transducer(<<>>, 0, map_count_, missing_mapping_, NoChar),
                  f, mapping)

\* [0-9A-Za-z]
IsAlnum(c) ==
    c \notin DOMAIN NamedOrd /\
    (ord(c) \in 48..57 \/ ord(c) \in 65..90 \/ ord(c) \in 97..122)

RECURSIVE AlnumPrefix(_)
\* the length of the longest prefix of [0-9A-Za-z]
AlnumPrefix(l) ==
    IF l = <<>> \/ ~IsAlnum(l[1]) THEN 0 ELSE 1 + AlnumPrefix(Tail(l))

\* the line without the newline that ends it
Chomp(l) ==
    IF l # <<>> /\ l[Len(l)] = "\n" THEN SubSeq(l, 1, Len(l) - 1) ELSE l

\* linere.match(l): '^([0-9A-Za-z]{4,})\t(.*)$'
linere_match(l) ==
    /\ AlnumPrefix(l) >= 4
    /\ Len(l) > AlnumPrefix(l)
    /\ l[AlnumPrefix(l) + 1] = "\t"
    /\ \A i \in (AlnumPrefix(l) + 2)..Len(Chomp(l)) : l[i] # "\n"

\* m.groups()
group_code(l) == SubSeq(l, 1, AlnumPrefix(l))
group_replacement(l) == SubSeq(l, AlnumPrefix(l) + 2, Len(Chomp(l)))

\* the value of a hexadecimal digit, 16 for a letter that is none
HexValue(c) ==
    IF ord(c) \in 48..57 THEN ord(c) - 48
    ELSE IF ord(c) \in 65..70 THEN ord(c) - 55
    ELSE IF ord(c) \in 97..102 THEN ord(c) - 87
    ELSE 16

RECURSIVE HexNumber(_)
HexNumber(s) ==
    IF s = <<>> THEN 0
    ELSE 16 * HexNumber(SubSeq(s, 1, Len(s) - 1)) + HexValue(s[Len(s)])

\* int(c, 16): ValueError for a letter beyond F
int16(s) ==
    IF \E i \in 1..Len(s) : HexValue(s[i]) = 16 THEN Raise("ValueError")
    ELSE Ok(HexNumber(s))

\* the characters that have a code in this model
KnownChars == DOMAIN NamedOrd \cup {Printable[i] : i \in 1..Len(Printable)}

\* wide_unichr(i), for the code of a known character
wide_unichr(i) == CHOOSE c \in KnownChars : ord(c) = i

sBackslashN == <<"\\", "n">>
sBackslashB == <<"\\", "b">>

\* r[:2] and r[-2:]
First2(r) == SubSeq(r, 1, IF Len(r) < 2 THEN Len(r) ELSE 2)
Last2(r) == SubSeq(r, IF Len(r) < 2 THEN 1 ELSE Len(r) - 1, Len(r))

\* the exceptions of read_mapping, one after the other
newline_exception(r) == IF r = sBackslashN THEN <<"\n">> ELSE r
initial_exception(r) ==
    IF First2(r) = sBackslashB THEN <<cBS>> \o SubSeq(r, 3, Len(r)) ELSE r
terminal_exception(r) ==
    IF Last2(r) = sBackslashB THEN SubSeq(r, 1, Len(r) - 2) \o <<cBS>> ELSE r

\* the replacement that is stored for the replacement that was read
stored_replacement(r) ==
    terminal_exception(initial_exception(newline_exception(r)))

\* c not in mapping or mapping[c] == r
no_conflict(mapping, c, r) == c \notin DOMAIN mapping \/ mapping[c] = r

\* mapping[c] = r
table_with(mapping, c, r) ==
    [k \in DOMAIN mapping \cup {c} |-> IF k = c THEN r ELSE mapping[k]]

\* the body of the loop of read_mapping for a line that matches
read_entry(mapping, c, r) ==
    IF no_conflict(mapping, c, r)
    THEN Ok(table_with(mapping, c, stored_replacement(r)))
    ELSE Raise("AssertionError")

\* the body of the loop of read_mapping for a line that is no comment
read_line(mapping, l) ==
    IF ~linere_match(l) THEN Raise("AssertionError")
    ELSE Bind(int16(group_code(l)), LAMBDA i :
             read_entry(mapping, wide_unichr(i), group_replacement(l)))

RECURSIVE read_from(_, _)
\* the loop of read_mapping over the lines that remain
read_from(mapping, f) ==
    IF f = <<>> THEN Ok(mapping)
    ELSE IF f[1] # <<>> /\ f[1][1] = "#" THEN read_from(mapping, Tail(f))
    ELSE Bind(read_line(mapping, f[1]), LAMBDA m : read_from(m, Tail(f)))

\* the table without entries
EmptyTable == [c \in {} |-> <<>>]

\* read_mapping(f, fn)
read_mapping(f) == read_from(EmptyTable, f)

RECURSIVE InsertAscending(_, _)
\* the entry put after the entries of a lower or the same count
InsertAscending(sorted, e) ==
    IF sorted = <<>> THEN <<e>>
    ELSE IF sorted[1].value <= e.value
    THEN <<sorted[1]>> \o InsertAscending(Tail(sorted), e)
    ELSE <<e>> \o sorted

RECURSIVE SortedAscending(_)
\* sorted(d.keys(), key=lambda k: d[k]): ascending, and stable
SortedAscending(d) ==
    IF d = <<>> THEN <<>>
    ELSE InsertAscending(SortedAscending(SubSeq(d, 1, Len(d) - 1)), d[Len(d)])

\* the missing_mapping rows of print_summary: (character, count)
print_summary(missing_mapping_) == SortedAscending(missing_mapping_)

\* a list is sorted by cmp(d[b], d[a]): the counts do not increase
Descending(rows) ==
    \A i \in 1..(Len(rows) - 1) : rows[i].value >= rows[i + 1].value

RECURSIVE Orders(_)
\* the orders in which d.keys() can list the entries of a dict
Orders(S) ==
    IF S = {} THEN {<<>>}
    ELSE UNION {{<<e>> \o o : o \in Orders(S \ {e})} : e \in S}

\* the rows that write_to_ascii_statistics can write: the keys in an order
\* that the dict gives, sorted by descending count
write_to_ascii_statistics(missing_mapping_) ==
    {rows \in Orders({missing_mapping_[i] : i \in 1..Len(missing_mapping_)}) :
        Descending(rows)}

---------------------------------------------------------------------------
(* Filtering and writing of one citation element *)

DigitValue ==
    ("0" :> 0) @@ ("1" :> 1) @@ ("2" :> 2) @@ ("3" :> 3) @@ ("4" :> 4) @@
    ("5" :> 5) @@ ("6" :> 6) @@ ("7" :> 7) @@ ("8" :> 8) @@ ("9" :> 9)

RECURSIVE DecimalValue(_)
\* the number that a sequence of digits denotes
DecimalValue(s) ==
    IF s = <<>> THEN 0
    ELSE 10 * DecimalValue(SubSeq(s, 1, Len(s) - 1)) + DigitValue[s[Len(s)]]

\* int(PMID), for an identifier without sign or surrounding white space:
\* TypeError for None, ValueError unless all characters are digits
int_of(s) ==
    IF s = NoneStr THEN Raise("TypeError")
    ELSE IF IsDigit(s) THEN Ok(DecimalValue(s))
    ELSE Raise("ValueError")

\* an option that is None or a value: the set of its values
NotGiven == {}
Given(v) == {v}

\* the message of the range branch of skip_pmid: '%d' of a limit that is
\* None raises TypeError
limits_message(options) ==
    IF options.PMID_greater_than = NotGiven \/ options.PMID_lower_than = NotGiven
    THEN Raise("TypeError") ELSE Ok(TRUE)

\* skip_pmid once PMID is a number
skip_number(n, options) ==
    IF \/ \E gt \in options.PMID_greater_than : n <= gt
       \/ \E lt \in options.PMID_lower_than : n >= lt
    THEN limits_message(options)
    ELSE IF \E ids \in options.ids : n \notin ids THEN Ok(TRUE)
    ELSE Ok(FALSE)

\* skip_pmid(PMID, options)
skip_pmid(PMID, options) ==
    Bind(int_of(PMID), LAMBDA n : skip_number(n, options))

\* the has_abstract branch of skip_citation
skip_no_abstract(element, options) ==
    IF options.has_abstract
    THEN MapOk(find_abstract(element), LAMBDA abstract : abstract = None)
    ELSE Ok(FALSE)

\* skip_citation(element, options)
skip_citation(element, options) ==
    Bind(find_only(element, "PMID"), LAMBDA pmid :
    Bind(skip_pmid(pmid.text, options), LAMBDA skip :
        IF skip THEN Ok(TRUE) ELSE skip_no_abstract(element, options)))

sTxt == <<".", "t", "x", "t">>

\* the name that write_citation writes to: nothing names the standard
\* output, citation.PMID + '.txt' raises TypeError for a PMID that is None
output_name(citation, options) ==
    IF options.output_dir = "-" THEN Ok(<<>>)
    ELSE IF citation.PMID = NoneStr THEN Raise("TypeError")
    ELSE Ok(citation.PMID \o sTxt)

\* what to_ascii reads and writes: to_ascii.mapping, the two tallies of
\* unicode2ascii, and the sum of the counts that process has returned
AsciiState(mapping, map_count_, missing_mapping_, returned_) ==
    [mapping |-> mapping, map_count |-> map_count_,
     missing_mapping |-> missing_mapping_, returned |-> returned_]

\* to_ascii.mapping after `if to_ascii.mapping is None`: entities.dat is
\* read at the first use, and read_mapping may raise
loaded_mapping(st, entities_) ==
    IF st.mapping.loaded THEN Ok(st.mapping)
    ELSE MapOk(read_mapping(entities_),
               LAMBDA table : [loaded |-> TRUE, table |-> table])

\* unicode2ascii.process([s], out, to_ascii.mapping); out.getvalue()
mapped_string(s, m, st) ==
    [text |-> process(<<s>>, m.table, st.map_count, st.missing_mapping).out,
     st |-> AsciiState(m,
              process(<<s>>, m.table, st.map_count, st.missing_mapping).map_count,
              process(<<s>>, m.table, st.map_count,
                      st.missing_mapping).missing_mapping,
              st.returned + process(<<s>>, m.table, st.map_count,
                                    st.missing_mapping).missing_count)]

\* to_ascii(s): the import first, then `if not s: return s`, then the
\* mapping, then the transducer.  unicode2ascii.py calls print with
\* file=out and has no print_function import, so that the import raises
\* SyntaxError where print is a statement (compiles_ is FALSE).
to_ascii(s, st, entities_, compiles_) ==
    IF ~compiles_ THEN Raise("SyntaxError")
    ELSE IF s = <<>> \/ s = NoneStr THEN Ok([text |-> s, st |-> st])
    ELSE MapOk(loaded_mapping(st, entities_), LAMBDA m : mapped_string(s, m, st))

RECURSIVE sections_to_ascii(_, _, _, _, _)
\* the loop of citation_to_ascii over citation.sections from section i on:
\* section._text, then section.label
sections_to_ascii(sections, i, st, entities_, compiles_) ==
    IF i > Len(sections) THEN Ok([sections |-> sections, st |-> st])
    ELSE Bind(to_ascii(sections[i].text, st, entities_, compiles_), LAMBDA t :
         Bind(to_ascii(sections[i].label, t.st, entities_, compiles_), LAMBDA l :
             sections_to_ascii(
                 [sections EXCEPT ![i] = [text |-> t.text, label |-> l.text]],
                 i + 1, l.st, entities_, compiles_)))

\* citation_to_ascii(citation): the title, then the sections
citation_to_ascii(citation, st, entities_, compiles_) ==
    Bind(to_ascii(citation.title, st, entities_, compiles_), LAMBDA t :
    MapOk(sections_to_ascii(citation.sections, 1, t.st, entities_, compiles_),
          LAMBDA s : [citation |-> [citation EXCEPT !.title = t.text,
                                                    !.sections = s.sections],
                      st |-> s.st]))

\* if options.ascii: citation_to_ascii(citation)
ascii_mapped(citation, options, st, entities_, compiles_) ==
    IF Opt(options, "ascii")
    THEN citation_to_ascii(citation, st, entities_, compiles_)
    ELSE Ok([citation |-> citation, st |-> st])

\* the rest of write_citation for plain text without sentence splitting or
\* tokenization: the (name, text) that is written
write_text(citation, options, uid_to_node, treenum_name) ==
    Bind(Citation_text(citation, options, uid_to_node, treenum_name), LAMBDA text :
    MapOk(output_name(citation, options), LAMBDA name :
        [name |-> name, text |-> text]))

\* write_citation(directory, name, outfile, citation, options): the file
\* that is written and the state of to_ascii afterwards
write_citation(citation, options, uid_to_node, treenum_name, st, entities_, compiles_) ==
    Bind(ascii_mapped(citation, options, st, entities_, compiles_), LAMBDA m :
    MapOk(write_text(m.citation, options, uid_to_node, treenum_name),
          LAMBDA written_ : [file |-> written_, st |-> m.st]))

\* the state of to_ascii after write_citation, raised or not: a call of
\* to_ascii that raises has changed nothing
ascii_after(citation, options, st, entities_, compiles_) ==
    IF IsOk(ascii_mapped(citation, options, st, entities_, compiles_))
    THEN ascii_mapped(citation, options, st, entities_, compiles_).val.st
    ELSE st

---------------------------------------------------------------------------
(* Inputs of the formatting functions *)

\* the longest hierarchy code enumerated exhaustively
MaxCodeLen == 4
\* the most headings of a citation that is rendered
MaxHeadings == 2
\* the most abstract sections of a citation that is rendered
MaxSections == 2

CodeChars == {"D", "1", "."}

RECURSIVE SeqsUpTo(_, _)
SeqsUpTo(S, n) ==
    IF n = 0 THEN {<<>>}
    ELSE LET shorter == SeqsUpTo(S, n - 1)
         IN  shorter \cup {Append(s, x) : s \in shorter, x \in S}

sH02_403_640 == <<"H","0","2",".","4","0","3",".","6","4","0">>
sD12 == <<"D","1","2">>

\* hierarchy codes handed to mesh_ancestors
TreeNums == SeqsUpTo(CodeChars, MaxCodeLen) \cup {sH02_403_640, sD12}

sD001 == <<"D","0","0","1">>
sD002 == <<"D","0","0","2">>
sD003 == <<"D","0","0","3">>
sD004 == <<"D","0","0","4">>
sD005 == <<"D","0","0","5">>
sD009 == <<"D","0","0","9">>
sQ001 == <<"Q","0","0","1">>
sQ002 == <<"Q","0","0","2">>
sName1 == <<"N","a","m","e","1">>
sName2 == <<"N","a","m","e","2">>
sStudyX == <<"S","t","u","d","y"," ","X">>
sBACKGROUND == <<"B","A","C","K","G","R","O","U","N","D">>
sRESULTS == <<"R","E","S","U","L","T","S">>

\* a registry with the top-level entries (extractMeSH.py --top), every
\* hierarchy code owned by one entry; D003 has no hierarchy code
RegFull ==
    (<<"D">> :> [name |-> <<"C","h","e","m">>, treenums |-> << <<"D">> >>]) @@
    (sD001 :> [name |-> sName1, treenums |-> << <<"D","1",".","1">>, <<"D","2">> >>]) @@
    (sD002 :> [name |-> <<"N","2">>, treenums |-> << <<"D","1">> >>]) @@
    (sD003 :> [name |-> <<"N","3">>, treenums |-> <<>>]) @@
    (sD004 :> [name |-> <<"N","4">>, treenums |-> << <<"D","1",".","1",".","1">> >>])

\* the same registry built without the top-level entries
RegNoTop == [u \in DOMAIN RegFull \ {<<"D">>} |-> RegFull[u]]

\* a registry in which two entries list the same hierarchy code
RegShared ==
    RegFull @@ (sD005 :> [name |-> <<"N","5">>, treenums |-> << <<"D","2">> >>])

\* a registry built from incomplete data: no entry has the code D1, the
\* parent of D1.1 and D1.1.1
RegGap == [u \in DOMAIN RegFull \ {sD002} |-> RegFull[u]]

Registries == {RegFull, RegNoTop, RegShared, RegGap}

Q1T == Qualifier(sQ001, <<"q","1">>, TRUE)
Q1F == Qualifier(sQ001, <<"q","1">>, FALSE)
Q2F == Qualifier(sQ002, sName2, FALSE)

QualifierLists ==
    {<<>>, <<Q2F>>, <<Q1T>>, <<Q1T, Q2F>>, <<Q1T, Q1F>>, <<Q2F, Q2F>>}

Descriptors ==
    {Descriptor(sD001, sName1, TRUE), Descriptor(sD001, sName1, FALSE),
     Descriptor(sD002, <<"N","2">>, FALSE), Descriptor(sD003, <<"N","3">>, FALSE),
     Descriptor(sD004, <<"N","4">>, TRUE), Descriptor(sD009, <<"N","9">>, FALSE)}

Headings == {MeshHeading(d, qs) : d \in Descriptors, qs \in QualifierLists}

\* the headings of the citations that are rendered
CitationHeadings ==
    {MeshHeading(Descriptor(sD001, sName1, TRUE), <<Q2F>>),
     MeshHeading(Descriptor(sD001, sName1, FALSE), <<>>),
     MeshHeading(Descriptor(sD002, <<"N","2">>, FALSE), <<>>),
     MeshHeading(Descriptor(sD002, <<"N","2">>, FALSE), <<Q2F>>),
     MeshHeading(Descriptor(sD003, <<"N","3">>, FALSE), <<>>),
     MeshHeading(Descriptor(sD004, <<"N","4">>, TRUE), <<Q1T, Q2F>>),
     MeshHeading(Descriptor(sD009, <<"N","9">>, FALSE), <<>>)}

OptionNames ==
    {"ascii", "json", "has_abstract", "single_line_abstract", "include_id",
     "metadata", "mesh_headings", "mesh_trees", "no_abstract", "no_title",
     "no_colon", "ssplit", "tokenize", "substances", "tgz"}

\* the options with exactly the given flags set
With(flags) == [n \in OptionNames |-> n \in flags]

\* options as process_options returns them: -mt implies -mh
TextOptions ==
    {None, With({}), With({"single_line_abstract"}), With({"no_colon"}),
     With({"tokenize"}), With({"no_title"}), With({"no_abstract"}),
     With({"include_id"}), With({"substances"}), With({"metadata"}),
     With({"single_line_abstract", "no_colon"}),
     With({"include_id", "substances", "metadata", "no_title"})}

MeshOptions ==
    {With({"mesh_headings"}), With({"mesh_headings", "mesh_trees"}),
     With({"mesh_headings", "mesh_trees", "no_title", "no_abstract"})}

SectionTexts == {<<>>, <<"a"," ","b">>, <<" ">>, <<"c","\n">>}
SectionLabels == {<<>>, sBACKGROUND, sRESULTS}

Sections == {[text |-> t, label |-> l] : t \in SectionTexts, l \in SectionLabels}

Chemicals == << [id |-> <<"C","1">>, name |-> <<"w">>, regnum |-> <<"0">>] >>
Metadata == << <<<<"P","u","b","D","a","t","e">>, <<"2","0","0","1">>>> >>

\* citations that vary in their title and sections
CitationsBySections ==
    {Citation(<<"1","2","3">>, t, ss, <<>>, Chemicals, Metadata) :
        t \in {sStudyX, <<>>}, ss \in SeqsUpTo(Sections, MaxSections)}

\* citations that vary in their headings
CitationsByMesh ==
    {Citation(<<"1","2","3">>, sStudyX,
              <<[text |-> <<"a"," ","b">>, label |-> sRESULTS]>>, hs,
              Chemicals, Metadata) :
        hs \in SeqsUpTo(CitationHeadings, MaxHeadings)}

---------------------------------------------------------------------------
(* The formatting functions, called on every input *)

NoCall == [op |-> "none", arg |-> <<>>, opt |-> None, res |-> Ok(<<>>)]

NotBuilt == [built |-> FALSE, treenum_to_name |-> [t \in {} |-> <<>>]]

\* no stream is being processed
StreamIdle ==
    /\ run_options = None
    /\ stream = <<>>
    /\ pos = 1
    /\ cleared = {}
    /\ written = <<>>
    /\ output_count = 0
    /\ skipped_count = 0
    /\ pc = "idle"

\* to_ascii.mapping = None
NotLoaded == [loaded |-> FALSE, table |-> EmptyTable]

\* the transducer has not been used
AsciiIdle ==
    /\ map_count = <<>>
    /\ missing_mapping = <<>>
    /\ returned = 0
    /\ entities = <<>>
    /\ to_ascii_mapping = NotLoaded
    /\ compiles = TRUE

InitFormat ==
    /\ call = NoCall
    /\ mesh \in Registries
    /\ mesh_cache = NotBuilt
    /\ StreamIdle
    /\ AsciiIdle

\* get_mesh_data: the caches this call can return; the derived index is
\* built on the first call and kept
get_mesh_data ==
    IF mesh_cache.built THEN {mesh_cache}
    ELSE {[built |-> TRUE, treenum_to_name |-> f] : f \in TreenumNameMaps(mesh)}

CallMeshAncestors ==
    /\ call.op = "none"
    /\ \E t \in TreeNums :
        /\ call' = [op |-> "mesh_ancestors", arg |-> t, opt |-> None,
                    res |-> mesh_ancestors(t)]
        /\ UNCHANGED <<mesh, mesh_cache, streamvars, asciivars>>

CallHeadingTexts ==
    /\ call.op = "none"
    /\ \E h \in Headings :
        /\ call' = [op |-> "heading_texts", arg |-> h, opt |-> None,
                    res |-> Ok(heading_texts(h))]
        /\ UNCHANGED <<mesh, mesh_cache, streamvars, asciivars>>

CallTreeNumbers ==
    /\ call.op = "none"
    /\ \E h \in Headings, c \in get_mesh_data :
        /\ mesh_cache' = c
        /\ call' = [op |-> "tree_numbers", arg |-> h, opt |-> None,
                    res |-> tree_numbers(h, mesh, c.treenum_to_name)]
        /\ UNCHANGED <<mesh, streamvars, asciivars>>

CallHeadingText ==
    /\ call.op = "none"
    /\ \E h \in Headings, o \in {None, With({}), With({"mesh_headings"}),
                              With({"mesh_headings", "mesh_trees"})},
       c \in get_mesh_data :
        /\ mesh_cache' = IF Opt(o, "mesh_trees") THEN c ELSE mesh_cache
        /\ call' = [op |-> "MeshHeading.text", arg |-> h, opt |-> o,
                    res |-> MeshHeading_text(h, o, mesh, c.treenum_to_name)]
        /\ UNCHANGED <<mesh, streamvars, asciivars>>

CallSectionInit ==
    /\ call.op = "none"
    /\ \E t \in SectionTexts \cup {NoneStr}, l \in SectionLabels \cup {NoneStr} :
        /\ call' = [op |-> "AbstractSection", arg |-> <<t, l>>, opt |-> None,
                    res |-> AbstractSection_init(t, l)]
        /\ UNCHANGED <<mesh, mesh_cache, streamvars, asciivars>>

\* Citation.text without headings in the output: get_mesh_data is not reached
CallCitationText ==
    /\ call.op = "none"
    /\ \E cit \in CitationsBySections, o \in TextOptions :
        /\ call' = [op |-> "Citation.text", arg |-> cit, opt |-> o,
                    res |-> Citation_text(cit, o, mesh, mesh_cache.treenum_to_name)]
        /\ UNCHANGED <<mesh, mesh_cache, streamvars, asciivars>>

\* Citation.text with headings in the output
CallCitationTextMesh ==
    /\ call.op = "none"
    /\ \E cit \in CitationsByMesh, o \in MeshOptions, c \in get_mesh_data :
        /\ mesh_cache' = IF Opt(o, "mesh_trees") /\ cit.mesh # <<>>
                         THEN c ELSE mesh_cache
        /\ call' = [op |-> "Citation.text", arg |-> cit, opt |-> o,
                    res |-> Citation_text(cit, o, mesh, c.treenum_to_name)]
        /\ UNCHANGED <<mesh, streamvars, asciivars>>

\* the call returns to its caller
Return ==
    /\ call.op # "none"
    /\ call' = NoCall
    /\ UNCHANGED <<mesh, mesh_cache, streamvars, asciivars>>

NextFormat ==
    \/ CallMeshAncestors
    \/ CallHeadingTexts
    \/ CallTreeNumbers
    \/ CallHeadingText
    \/ CallSectionInit
    \/ CallCitationText
    \/ CallCitationTextMesh
    \/ Return

SpecFormat == InitFormat /\ [][NextFormat]_vars

---------------------------------------------------------------------------
(* Inputs of the extraction: MedlineCitation elements *)

\* the most AbstractText blocks of a container that is enumerated
MaxBlocks == 2
\* the most OtherAbstract elements of a citation element
MaxOther == 2

sL == <<"L">>
sEtude == <<"E","t","u","d","e">>

AbstractText(text, label) ==
    Element("AbstractText", [NoAttrib EXCEPT !.Label = label], text, <<>>)

\* <AbstractText><i>a</i> b</AbstractText>
MarkupText ==
    Element("AbstractText", NoAttrib, NoneStr,
            <<ElementT("i", NoAttrib, <<"a">>, <<>>, <<" ", "b">>)>>)

\* AbstractText blocks: with and without text, label and markup
Blocks ==
    {AbstractText(<<"x">>, NoneStr), AbstractText(NoneStr, NoneStr),
     AbstractText(<<" ">>, sUNLABELLED), AbstractText(NoneStr, sL),
     AbstractText(<<"x">>, sL), AbstractText(<<"x">>, sUNLABELLED),
     AbstractText(<<>>, <<>>), AbstractText(<<" ", "\n">>, NoneStr),
     AbstractText(<<" ">>, sRESULTS), MarkupText}

\* the blocks of the containers that are enumerated
ContainerBlocks ==
    {AbstractText(<<"x">>, NoneStr), AbstractText(NoneStr, NoneStr),
     AbstractText(<<" ">>, sUNLABELLED), AbstractText(<<"y">>, sL),
     AbstractText(NoneStr, sL), AbstractText(<<"z">>, sUNLABELLED)}

Container(tag, blocks) == Element(tag, NoAttrib, NoneStr, blocks)

Abstract1 == Container("Abstract", <<AbstractText(<<"a">>, NoneStr)>>)
Abstract0 == Container("Abstract", <<>>)
Other1 == Container("OtherAbstract", <<AbstractText(<<"o">>, sL)>>)
Other2 == Container("OtherAbstract", <<AbstractText(<<"p">>, NoneStr)>>)
Other0 == Container("OtherAbstract", <<>>)

PubDate2001 ==
    Element("PubDate", NoAttrib, NoneStr,
            <<Leaf("Year", <<"2","0","0","1">>), Leaf("Month", <<"J","a","n">>)>>)

Journal(pubdates) ==
    Element("Journal", NoAttrib, NoneStr,
            <<Element("JournalIssue", NoAttrib, NoneStr, pubdates)>>)

ArticleElement(journals, titles, abstracts, verns) ==
    Element("Article", NoAttrib, NoneStr, journals \o titles \o abstracts \o verns)

CitationElement(pmids, articles, others, lists) ==
    Element("MedlineCitation", NoAttrib, NoneStr, pmids \o articles \o others \o lists)

ArticleTitle(text) == Leaf("ArticleTitle", text)
VernacularTitle(text) == Leaf("VernacularTitle", text)

\* <ArticleTitle>Study <i>X</i></ArticleTitle>
MarkupTitle ==
    Element("ArticleTitle", NoAttrib, <<"S","t","u","d","y"," ">>,
            <<Leaf("i", <<"X">>)>>)

ArticleTitles ==
    {<<>>, <<ArticleTitle(sStudyX)>>, <<ArticleTitle(NoneStr)>>,
     <<ArticleTitle(<<>>)>>, <<MarkupTitle>>,
     <<ArticleTitle(sStudyX), ArticleTitle(sStudyX)>>}

VernacularTitles ==
    {<<>>, <<VernacularTitle(sEtude)>>, <<VernacularTitle(NoneStr)>>,
     <<VernacularTitle(sEtude), VernacularTitle(sEtude)>>}

PMID1 == Leaf("PMID", <<"1">>)

DescriptorName(ui, name, major) ==
    Element("DescriptorName", [NoAttrib EXCEPT !.UI = ui, !.MajorTopicYN = major],
            name, <<>>)

QualifierName(ui, name, major) ==
    Element("QualifierName", [NoAttrib EXCEPT !.UI = ui, !.MajorTopicYN = major],
            name, <<>>)

HeadingD001 ==
    Element("MeshHeading", NoAttrib, NoneStr,
            <<DescriptorName(sD001, sName1, <<"Y">>),
              QualifierName(sQ002, sName2, <<"N">>)>>)

HeadingNoDescriptor ==
    Element("MeshHeading", NoAttrib, NoneStr,
            <<QualifierName(sQ002, sName2, <<"N">>)>>)

MeshHeadingList(headings) == Element("MeshHeadingList", NoAttrib, NoneStr, headings)

ChemicalC1 ==
    Element("Chemical", NoAttrib, NoneStr,
            <<Leaf("RegistryNumber", <<"0">>),
              Element("NameOfSubstance", [NoAttrib EXCEPT !.UI = <<"C","1">>],
                      <<"w">>, <<>>)>>)

ChemicalList(chemicals) == Element("ChemicalList", NoAttrib, NoneStr, chemicals)

GoodLists == <<MeshHeadingList(<<HeadingD001>>), ChemicalList(<<ChemicalC1>>)>>

\* elements that vary in their titles, the rest well-formed
TitleElements ==
    {CitationElement(<<PMID1>>,
                     <<ArticleElement(<<Journal(<<PubDate2001>>)>>, ts, abs, vs)>>,
                     <<>>, GoodLists) :
        ts \in ArticleTitles, vs \in VernacularTitles,
        abs \in {<<>>, <<Abstract1>>}}

\* elements that vary in their abstract containers, the rest well-formed
AbstractElements ==
    {CitationElement(<<PMID1>>,
                     <<ArticleElement(<<Journal(<<PubDate2001>>)>>,
                                      <<ArticleTitle(sStudyX)>>, abs, <<>>)>>,
                     os, GoodLists) :
        abs \in {<<>>, <<Abstract1>>, <<Abstract0>>, <<Abstract1, Abstract0>>},
        os \in SeqsUpTo({Other1, Other2, Other0}, MaxOther)}

\* elements that vary in the blocks of their Abstract
BlockElements ==
    {CitationElement(<<PMID1>>,
                     <<ArticleElement(<<Journal(<<PubDate2001>>)>>,
                                      <<ArticleTitle(sStudyX)>>,
                                      <<Container("Abstract", bs)>>, <<>>)>>,
                     <<>>, <<>>) :
        bs \in SeqsUpTo(ContainerBlocks, MaxBlocks)}

GoodArticle ==
    ArticleElement(<<Journal(<<PubDate2001>>)>>, <<ArticleTitle(sStudyX)>>,
                   <<Abstract1>>, <<>>)

\* elements whose structure is not the expected one
BrokenElements ==
    {CitationElement(<<>>, <<GoodArticle>>, <<>>, GoodLists),
     CitationElement(<<PMID1, PMID1>>, <<GoodArticle>>, <<>>, GoodLists),
     CitationElement(<<PMID1>>, <<>>, <<>>, GoodLists),
     CitationElement(<<PMID1>>, <<>>, <<Other1>>, GoodLists),
     CitationElement(<<PMID1>>, <<GoodArticle, GoodArticle>>, <<>>, GoodLists),
     CitationElement(<<PMID1>>, <<GoodArticle>>, <<>>,
                     <<MeshHeadingList(<<>>), MeshHeadingList(<<HeadingD001>>)>>),
     CitationElement(<<PMID1>>, <<GoodArticle>>, <<>>,
                     <<MeshHeadingList(<<HeadingNoDescriptor>>)>>),
     CitationElement(<<PMID1>>, <<GoodArticle>>, <<>>,
                     <<ChemicalList(<<Leaf("Chemical", NoneStr)>>)>>),
     CitationElement(<<PMID1>>,
                     <<ArticleElement(<<Journal(<<>>)>>, <<ArticleTitle(sStudyX)>>,
                                      <<>>, <<>>)>>, <<>>, <<>>),
     CitationElement(<<PMID1>>,
                     <<ArticleElement(<<>>, <<ArticleTitle(sStudyX)>>,
                                      <<>>, <<>>)>>, <<>>, <<>>)}

CitationElements ==
    TitleElements \cup AbstractElements \cup BlockElements \cup BrokenElements

---------------------------------------------------------------------------
(* The extraction functions, called on every input *)

CallFromXml ==
    /\ call.op = "none"
    /\ \E e \in CitationElements :
        /\ call' = [op |-> "Citation.from_xml", arg |-> e, opt |-> None,
                    res |-> Citation_from_xml(e)]
        /\ UNCHANGED <<mesh, mesh_cache, streamvars, asciivars>>

CallFindAbstract ==
    /\ call.op = "none"
    /\ \E e \in AbstractElements \cup BrokenElements :
        /\ call' = [op |-> "find_abstract", arg |-> e, opt |-> None,
                    res |-> find_abstract(e)]
        /\ UNCHANGED <<mesh, mesh_cache, streamvars, asciivars>>

CallSectionFromXml ==
    /\ call.op = "none"
    /\ \E e \in Blocks :
        /\ call' = [op |-> "AbstractSection.from_xml", arg |-> e, opt |-> None,
                    res |-> AbstractSection_from_xml(e)]
        /\ UNCHANGED <<mesh, mesh_cache, streamvars, asciivars>>

\* the most children of a date element
MaxDateFields == 3

s2001 == <<"2", "0", "0", "1">>

\* the children of a date element: fields with a text, fields without, a
\* month by name, by number, by a name that month_abbr_map lacks
DateFields ==
    {Leaf("Year", s2001), Leaf("Year", <<"1", "9", "9", "9">>),
     Leaf("Year", NoneStr), Leaf("Month", <<"J", "a", "n">>),
     Leaf("Month", <<"D", "e", "c">>), Leaf("Month", <<"3">>),
     Leaf("Month", <<"j", "a", "n">>), Leaf("Day", <<"0", "5">>),
     Leaf("MedlineDate", <<"2", "0", "0", "1", " ", "S", "p", "r">>),
     Leaf("MedlineDate", NoneStr), Leaf("Season", <<"S", "p", "r">>)}

DateElements ==
    {Element("DateCreated", NoAttrib, NoneStr, fields) :
        fields \in SeqsUpTo(DateFields, MaxDateFields)}

CallDateString ==
    /\ call.op = "none"
    /\ \E e \in DateElements :
        /\ call' = [op |-> "date_string", arg |-> e, opt |-> None,
                    res |-> Ok(date_string(e))]
        /\ UNCHANGED <<mesh, mesh_cache, streamvars, asciivars>>

NextExtract ==
    \/ CallFromXml
    \/ CallFindAbstract
    \/ CallSectionFromXml
    \/ CallSectionInit
    \/ CallDateString
    \/ Return

SpecExtract == InitFormat /\ [][NextExtract]_vars

---------------------------------------------------------------------------
(* process_stream over one stream of parse events *)

\* the most events of a stream
MaxStream == 2

\* options as process_options returns them, with the PMID filters
RunOptions(flags, gt, lt, ids, output_dir) ==
    [n \in OptionNames \cup
           {"PMID_greater_than", "PMID_lower_than", "ids", "output_dir"} |->
        IF n = "PMID_greater_than" THEN gt
        ELSE IF n = "PMID_lower_than" THEN lt
        ELSE IF n = "ids" THEN ids
        ELSE IF n = "output_dir" THEN output_dir
        ELSE n \in flags]

StreamOptions ==
    {RunOptions({}, NotGiven, NotGiven, NotGiven, "texts"),
     RunOptions({}, NotGiven, NotGiven, NotGiven, "-"),
     RunOptions({"has_abstract"}, NotGiven, NotGiven, NotGiven, "texts"),
     RunOptions({}, Given(1), NotGiven, NotGiven, "texts"),
     RunOptions({}, Given(1), Given(3), NotGiven, "texts"),
     RunOptions({}, NotGiven, NotGiven, Given({1, 3}), "texts"),
     RunOptions({"mesh_headings", "mesh_trees"}, NotGiven, NotGiven, NotGiven,
                "texts"),
     RunOptions({"ascii"}, NotGiven, NotGiven, NotGiven, "texts"),
     RunOptions({"ascii", "has_abstract"}, NotGiven, NotGiven, NotGiven, "-")}

\* a well-formed citation element with the given identifier
GoodCitation(pmid) ==
    CitationElement(<<Leaf("PMID", pmid)>>, <<GoodArticle>>, <<>>, GoodLists)

\* a citation element without abstract
PlainCitation(pmid) ==
    CitationElement(<<Leaf("PMID", pmid)>>,
                    <<ArticleElement(<<Journal(<<PubDate2001>>)>>,
                                     <<ArticleTitle(sStudyX)>>, <<>>, <<>>)>>,
                    <<>>, <<>>)

\* a citation element whose Abstract has no AbstractText
MalformedCitation(pmid) ==
    CitationElement(<<Leaf("PMID", pmid)>>,
                    <<ArticleElement(<<Journal(<<PubDate2001>>)>>,
                                     <<ArticleTitle(sStudyX)>>, <<Abstract0>>,
                                     <<>>)>>,
                    <<>>, <<>>)

\* a title with characters beyond 7 bits
sAccented == <<cE9, "t", "u", "d", "e", " ", cD7>>

\* a well-formed citation element with that title
AccentedCitation(pmid) ==
    CitationElement(<<Leaf("PMID", pmid)>>,
                    <<ArticleElement(<<Journal(<<PubDate2001>>)>>,
                                     <<ArticleTitle(sAccented)>>, <<Abstract1>>,
                                     <<>>)>>,
                    <<>>, <<>>)

EndEvent(e) == [event |-> "end", element |-> e]

\* the events of ET.iterparse(fn): the end of an element
StreamEvents ==
    {EndEvent(PMID1), EndEvent(GoodCitation(<<"1">>)),
     EndEvent(PlainCitation(<<"2">>)), EndEvent(MalformedCitation(<<"3">>)),
     EndEvent(GoodCitation(<<"x", "1">>)), EndEvent(PlainCitation(<<"4">>)),
     EndEvent(CitationElement(<<>>, <<GoodArticle>>, <<>>, <<>>)),
     EndEvent(AccentedCitation(<<"5">>))}

Streams == SeqsUpTo(StreamEvents, MaxStream)

\* entities.dat with one entry
EntitiesGood == << <<"0", "0", "E", "9", "\t", "e", "\n">> >>

\* entities.dat with a line that is no entry
EntitiesMalformed ==
    << <<"0", "0", "E", "9", "\t", "e", "\n">>, <<"b", "a", "d", "\n">> >>

InitStream ==
    /\ call = NoCall
    /\ mesh \in {RegFull, RegNoTop}
    /\ mesh_cache = NotBuilt
    /\ run_options \in StreamOptions
    /\ stream \in Streams
    /\ pos = 1
    /\ cleared = {}
    /\ written = <<>>
    /\ output_count = 0
    /\ skipped_count = 0
    /\ pc = "running"
    /\ map_count = <<>>
    /\ missing_mapping = <<>>
    /\ returned = 0
    /\ entities \in {EntitiesGood, EntitiesMalformed}
    /\ to_ascii_mapping = NotLoaded
    /\ compiles \in BOOLEAN

\* the loop is at an event
AtEvent == pc = "running" /\ pos <= Len(stream)

\* event == 'end' and element.tag == 'MedlineCitation'
IsCitationEnd(item) ==
    item.event = "end" /\ item.element.tag = "MedlineCitation"

\* a call of the loop body raises: process_stream is left, main logs the
\* failure and raises again
Raised(op, element, outcome) ==
    /\ pc' = "raised"
    /\ call' = [op |-> op, arg |-> element, opt |-> run_options, res |-> outcome]
    /\ UNCHANGED <<run_options, stream, pos, cleared, written, output_count,
                   skipped_count, entities, compiles>>

\* the cache after Citation.text: built when a heading is expanded
cache_after(citation, c) ==
    IF Opt(run_options, "mesh_trees") /\ citation.mesh # <<>> THEN c ELSE mesh_cache

\* the state of to_ascii at this point of the run
AsciiNow == AsciiState(to_ascii_mapping, map_count, missing_mapping, returned)

\* the state of to_ascii becomes st
AsciiBecomes(st) ==
    /\ to_ascii_mapping' = st.mapping
    /\ map_count' = st.map_count
    /\ missing_mapping' = st.missing_mapping
    /\ returned' = st.returned

\* the loop body that leaves the element as it was delivered
element_kept(done, i) == done

\* element.clear() on the element of event i: done are the events whose
\* elements have been cleared
element_clear(done, i) == done \cup {i}

\* an event that is not the end of a citation element: continue
StreamContinue ==
    /\ AtEvent
    /\ ~IsCitationEnd(stream[pos])
    /\ pos' = pos + 1
    /\ UNCHANGED <<call, mesh, mesh_cache, run_options, stream, cleared,
                   written, output_count, skipped_count, pc, asciivars>>

\* skip_citation raises
StreamSkipRaises ==
    /\ AtEvent
    /\ IsCitationEnd(stream[pos])
    /\ ~IsOk(skip_citation(stream[pos].element, run_options))
    /\ Raised("skip_citation", stream[pos].element,
              skip_citation(stream[pos].element, run_options))
    /\ UNCHANGED <<mesh, mesh_cache, map_count, missing_mapping, returned,
                   to_ascii_mapping>>

\* the citation is skipped: counted, and the element cleared
StreamSkip ==
    /\ AtEvent
    /\ IsCitationEnd(stream[pos])
    /\ IsOk(skip_citation(stream[pos].element, run_options))
    /\ skip_citation(stream[pos].element, run_options).val
    /\ skipped_count' = skipped_count + 1
    /\ cleared' = element_clear(cleared, pos)
    /\ pos' = pos + 1
    /\ UNCHANGED <<call, mesh, mesh_cache, run_options, stream, written,
                   output_count, pc, asciivars>>

\* the citation is not skipped
NotSkipped ==
    /\ AtEvent
    /\ IsCitationEnd(stream[pos])
    /\ IsOk(skip_citation(stream[pos].element, run_options))
    /\ ~skip_citation(stream[pos].element, run_options).val

\* Citation.from_xml raises
StreamExtractRaises ==
    /\ NotSkipped
    /\ ~IsOk(Citation_from_xml(stream[pos].element))
    /\ Raised("Citation.from_xml", stream[pos].element,
              Citation_from_xml(stream[pos].element))
    /\ UNCHANGED <<mesh, mesh_cache, map_count, missing_mapping, returned,
                   to_ascii_mapping>>

\* write_citation(output_dir, name, outfile, citation, options) at this
\* point of the run, with the derived index c
WriteOutcome(citation, c) ==
    write_citation(citation, run_options, mesh, c.treenum_to_name, AsciiNow,
                   entities, compiles)

\* write_citation raises: in citation_to_ascii, before the text is made, or
\* after it
StreamWriteRaises ==
    /\ NotSkipped
    /\ IsOk(Citation_from_xml(stream[pos].element))
    /\ \E c \in get_mesh_data :
        /\ ~IsOk(WriteOutcome(Citation_from_xml(stream[pos].element).val, c))
        /\ mesh_cache' =
             IF IsOk(ascii_mapped(Citation_from_xml(stream[pos].element).val,
                                  run_options, AsciiNow, entities, compiles))
             THEN cache_after(Citation_from_xml(stream[pos].element).val, c)
             ELSE mesh_cache
        /\ AsciiBecomes(ascii_after(Citation_from_xml(stream[pos].element).val,
                                    run_options, AsciiNow, entities, compiles))
        /\ Raised("write_citation", stream[pos].element,
                  WriteOutcome(Citation_from_xml(stream[pos].element).val, c))
        /\ UNCHANGED mesh

\* the citation is extracted and written, counted, and the element cleared
StreamWrite ==
    /\ NotSkipped
    /\ IsOk(Citation_from_xml(stream[pos].element))
    /\ \E c \in get_mesh_data :
        /\ IsOk(WriteOutcome(Citation_from_xml(stream[pos].element).val, c))
        /\ mesh_cache' = cache_after(Citation_from_xml(stream[pos].element).val, c)
        /\ written' = Append(written,
               [index |-> pos,
                file |-> WriteOutcome(Citation_from_xml(stream[pos].element).val,
                                      c).val.file])
        /\ AsciiBecomes(WriteOutcome(Citation_from_xml(stream[pos].element).val,
                                     c).val.st)
        /\ output_count' = output_count + 1
        /\ cleared' = element_clear(cleared, pos)
        /\ pos' = pos + 1
        /\ UNCHANGED <<call, mesh, run_options, stream, skipped_count, pc,
                       entities, compiles>>

\* the stream is exhausted: process_stream returns
StreamEnd ==
    /\ pc = "running"
    /\ pos > Len(stream)
    /\ pc' = "done"
    /\ UNCHANGED <<call, mesh, mesh_cache, run_options, stream, pos, cleared,
                   written, output_count, skipped_count, asciivars>>

NextStream ==
    \/ StreamContinue
    \/ StreamSkipRaises
    \/ StreamSkip
    \/ StreamExtractRaises
    \/ StreamWriteRaises
    \/ StreamWrite
    \/ StreamEnd

SpecStream == InitStream /\ [][NextStream]_vars

---------------------------------------------------------------------------
(* The functions of unicode2ascii.py, called on every input; the         *)
(* transducer call after call                                            *)

\* the longest line that is enumerated exhaustively
MaxLineLen == 3
\* the most lines of a mapping file
MaxLines == 2
\* the transducer is called while fewer characters than this are tallied
MaxTally == 3

TransducerChars == {"a", " ", cE9, cD7}

InputLines ==
    SeqsUpTo(TransducerChars, MaxLineLen) \cup
    {<<"U+1D6FC">>, <<c3B1, cD7, "b">>, <<"_", cD7, "_">>, <<"a", cE9, "b">>,
     <<" ", cE9, "b">>, <<"a", "\n">>, <<"2", cD7, "2", "\n">>}

InputFiles ==
    {<<l>> : l \in InputLines} \cup
    {<<>>, << <<"a">>, <<cD7, "a">> >>, << <<"a", cD7>>, <<"a">> >>,
     << <<c3B1, "\n">>, <<c3B1, cE9, "\n">> >>}

sAnd == <<"a", "n", "d">>

\* table entries as read_mapping stores them
Entries ==
    {<<>>, <<"e">>, <<cBS>> \o sAnd, <<cBS, "x", cBS>>, <<cBS>>, <<cBS, cBS>>,
     <<"x", cBS>>}

\* lines of a mapping file
MappingLines ==
    {<<"#", "x", "\n">>,
     <<"0", "0", "E", "9", "\t", "e", "\n">>,
     <<"0", "0", "E", "9", "\t", "E", "\n">>,
     <<"0", "0", "e", "9", "\t", "e", "\n">>,
     <<"0", "0", "E", "9", "\t", "\\", "n", "\n">>,
     <<"0", "0", "D", "7", "\t", "\\", "b", "x", "\\", "b", "\n">>,
     <<"0", "0", "E", "9", "\t", "\\", "b", "a", "n", "d", "\n">>,
     <<"0", "0", "E", "9", "\t", c3B1, "\n">>,
     <<"1", "D", "6", "F", "C", "\t", "y">>,
     <<"0", "0", "G", "G", "\t", "x", "\n">>,
     <<"b", "a", "d", "\n">>,
     <<"\n">>}

\* the table loaded from a file whose only entry replaces e acute by the
\* Greek letter alpha
GreekTable == read_mapping(<< <<"0", "0", "E", "9", "\t", c3B1, "\n">> >>).val

Tables ==
    {EmptyTable,
     (cE9 :> <<"e">>),
     (cE9 :> (<<cBS>> \o sAnd)) @@ (cD7 :> <<cBS>>),
     (cD7 :> <<cBS, "x", cBS>>),
     (cD7 :> <<cBS, "x", cBS>>) @@ (cE9 :> (<<cBS>> \o sAnd)),
     ("a" :> <<"x">>) @@ (cE9 :> <<>>) @@ (cD7 :> <<cBS>>),
     GreekTable}

MappingFiles == SeqsUpTo(MappingLines, MaxLines)

\* process(f, out, mapping) has returned with the transducer in state st
ProcessReturns(f, mapping, st) ==
    /\ call' = [op |-> "process", arg |-> f, opt |-> mapping,
                res |-> Ok([out |-> st.out, count |-> st.missing_count])]
    /\ map_count' = st.map_count
    /\ missing_mapping' = st.missing_mapping
    /\ returned' = returned + st.missing_count

CallProcess ==
    /\ call.op = "none"
    /\ DictSum(map_count) + DictSum(missing_mapping) < MaxTally
    /\ \E f \in InputFiles, mapping \in Tables :
        ProcessReturns(f, mapping, process(f, mapping, map_count, missing_mapping))
    /\ UNCHANGED <<mesh, mesh_cache, streamvars, entities, to_ascii_mapping,
                   compiles>>

CallMapCharacter ==
    /\ call.op = "none"
    /\ \E prev \in {NoChar, "a", " ", "_", cE9, cD7},
          next_ \in {NoChar, "a", " ", "_", cE9, cD7}, entry \in Entries :
        call' = [op |-> "map_character", arg |-> <<prev, cE9, next_>>,
                 opt |-> entry, res |-> Ok(map_character(prev, cE9, next_, entry))]
    /\ UNCHANGED <<mesh, mesh_cache, streamvars, asciivars>>

CallReadMapping ==
    /\ call.op = "none"
    /\ \E f \in MappingFiles :
        call' = [op |-> "read_mapping", arg |-> f, opt |-> None,
                 res |-> read_mapping(f)]
    /\ UNCHANGED <<mesh, mesh_cache, streamvars, asciivars>>

\* print_summary of unicode2ascii.py: the rows of the characters without
\* mapping
CallPrintSummary ==
    /\ call.op = "none"
    /\ call' = [op |-> "print_summary", arg |-> missing_mapping, opt |-> None,
                res |-> Ok(print_summary(missing_mapping))]
    /\ UNCHANGED <<mesh, mesh_cache, streamvars, asciivars>>

\* write_to_ascii_statistics of the extractor: nothing when nothing is
\* missing
CallWriteStatistics ==
    /\ call.op = "none"
    /\ \E rows \in write_to_ascii_statistics(missing_mapping) :
        call' = [op |-> "write_to_ascii_statistics", arg |-> missing_mapping,
                 opt |-> None, res |-> Ok(rows)]
    /\ UNCHANGED <<mesh, mesh_cache, streamvars, asciivars>>

InitAscii ==
    /\ call = NoCall
    /\ mesh = RegFull
    /\ mesh_cache = NotBuilt
    /\ StreamIdle
    /\ AsciiIdle

\* the functions of unicode2ascii.py that read and write no global
NextMapping ==
    \/ CallMapCharacter
    \/ CallReadMapping
    \/ Return

SpecMapping == InitAscii /\ [][NextMapping]_vars

\* the transducer and the summaries of its tallies
NextAscii ==
    \/ CallProcess
    \/ CallPrintSummary
    \/ CallWriteStatistics
    \/ Return

SpecAscii == InitAscii /\ [][NextAscii]_vars

---------------------------------------------------------------------------
(* Properties of the hierarchy expander and of the renderings *)

\* the positions of the dots of a hierarchy code
DotPositions(s) == {i \in 1..Len(s) : s[i] = "."}

\* the number of dot-separated segments of a code
NumSegments(s) == Cardinality(DotPositions(s)) + 1

\* the code cut before its k-th dot: segments 0..k-1 joined with '.'
SegmentsPrefix(s, k) ==
    IF k = NumSegments(s) THEN s
    ELSE SubSeq(s, 1, (CHOOSE i \in DotPositions(s) :
                         Cardinality({j \in DotPositions(s) : j < i}) = k - 1) - 1)

\* C1: for a non-empty code with n segments mesh_ancestors returns n+1
\* entries: the first character, then the prefixes of 1..n segments in
\* increasing length; 'H02.403.640' gives H, H02, H02.403, H02.403.640 and
\* 'D12' gives D, D12; there are always at least two entries.
C1_AncestorChain ==
    (call.op = "mesh_ancestors" /\ call.arg # <<>>) =>
        /\ IsOk(call.res)
        /\ Len(call.res.val) = NumSegments(call.arg) + 1
        /\ Len(call.res.val) >= 2
        /\ call.res.val[1] = <<call.arg[1]>>
        /\ \A k \in 1..NumSegments(call.arg) :
              call.res.val[k + 1] = SegmentsPrefix(call.arg, k)
        /\ (call.arg = sH02_403_640 =>
              call.res.val = << <<"H">>, <<"H","0","2">>,
                                <<"H","0","2",".","4","0","3">>, sH02_403_640 >>)
        /\ (call.arg = sD12 => call.res.val = << <<"D">>, sD12 >>)

C1_Witness ==
    /\ call.op = "mesh_ancestors"
    /\ call.arg = sH02_403_640
    /\ Len(call.res.val) = 4

\* the '<code>[/<qualifier-id>]' part of a rendered entry: what precedes
\* its first space
EntryKey(e) ==
    IF \A i \in 1..Len(e) : e[i] # " " THEN e
    ELSE SubSeq(e, 1, (CHOOSE i \in 1..Len(e) :
                         e[i] = " " /\ \A j \in 1..(i - 1) : e[j] # " ") - 1)

\* a sequence without its repetitions, first occurrences kept in order
RECURSIVE FirstOccurrences(_, _)
FirstOccurrences(xs, acc) ==
    IF xs = <<>> THEN acc
    ELSE FirstOccurrences(Tail(xs),
            IF \E i \in 1..Len(acc) : acc[i] = Head(xs) THEN acc
            ELSE Append(acc, Head(xs)))

\* the '<code>[/<qualifier-id>]' pairs of a heading in the order in which
\* qualifiers, then hierarchy codes, then ancestors are iterated
PairsInIterationOrder(h, reg) ==
    LET quals == IF h.qualifiers = <<>> THEN << <<>> >>
                 ELSE [i \in 1..Len(h.qualifiers) |-> <<"/">> \o h.qualifiers[i].id]
        codes == reg[h.descriptor.id].treenums
        chain(t) == << <<t[1]>> >> \o [k \in 1..NumSegments(t) |-> SegmentsPrefix(t, k)]
    IN  Flatten([i \in 1..Len(quals) |->
            Flatten([j \in 1..Len(codes) |->
                [k \in 1..Len(chain(codes[j])) |-> chain(codes[j])[k] \o quals[i]]])])

\* C2: the sequence returned by tree_numbers holds no two entries with the
\* same (ancestor-code, qualifier-identifier) pair, and its entries are in
\* the order in which their pairs were first produced.
C2_NoDuplicatePairs ==
    (call.op = "tree_numbers" /\ IsOk(call.res)) =>
        /\ \A i, j \in 1..Len(call.res.val) :
              i # j => EntryKey(call.res.val[i]) # EntryKey(call.res.val[j])
        /\ [i \in 1..Len(call.res.val) |-> EntryKey(call.res.val[i])] =
              FirstOccurrences(PairsInIterationOrder(call.arg, mesh), <<>>)

\* the tab-separated fields that follow 'MeSH Terms:' in a rendered citation
MeshTermsFields(text) ==
    LET lines == Split(text, "\n")
        at == CHOOSE i \in 1..Len(lines) :
                 Len(lines[i]) >= Len(sMeSHTerms) /\
                 SubSeq(lines[i], 1, Len(sMeSHTerms)) = sMeSHTerms
    IN  Tail(Split(lines[at], "\t"))

\* a citation rendered with expanded hierarchy output
ExpandedText ==
    /\ call.op = "Citation.text"
    /\ Opt(call.opt, "mesh_headings")
    /\ Opt(call.opt, "mesh_trees")
    /\ IsOk(call.res)

\* C3 as claimed: the 'MeSH Terms:' line holds each (ancestor-code,
\* qualifier) entry at most once over all the headings of the citation.
C3_MergedAcrossHeadings ==
    ExpandedText =>
        \A i, j \in 1..Len(MeshTermsFields(call.res.val)) :
            (i # j /\ MeshTermsFields(call.res.val)[i] # <<>>) =>
                EntryKey(MeshTermsFields(call.res.val)[i]) #
                EntryKey(MeshTermsFields(call.res.val)[j])

\* the fields one heading contributes: its own expansion, or one empty
\* field when it has no hierarchy code
HeadingFields(h) ==
    IF tree_numbers(h, mesh, mesh_cache.treenum_to_name).val = <<>>
    THEN << <<>> >>
    ELSE tree_numbers(h, mesh, mesh_cache.treenum_to_name).val

\* C3 as amended: the entries are not merged across headings; the 'MeSH
\* Terms:' line is the concatenation, in heading order, of each heading's
\* own expansion, so an entry that two headings share appears once for each.
C3_PerHeadingExpansion ==
    ExpandedText =>
        MeshTermsFields(call.res.val) =
            Flatten([i \in 1..Len(call.arg.mesh) |-> HeadingFields(call.arg.mesh[i])])

C3_Witness ==
    /\ ExpandedText
    /\ Len(call.arg.mesh) = 2
    /\ call.arg.mesh[1] # call.arg.mesh[2]
    /\ \E i, j \in 1..Len(MeshTermsFields(call.res.val)) :
          /\ i < j
          /\ MeshTermsFields(call.res.val)[i] # <<>>
          /\ MeshTermsFields(call.res.val)[i] = MeshTermsFields(call.res.val)[j]

\* descriptor D001 (Name1), major topic, with qualifier Q002 (Name2), not major
HeadingD001Q002 == MeshHeading(Descriptor(sD001, sName1, TRUE), <<Q2F>>)

DirectRenderingOfD001Q002 ==
    /\ call.op = "MeshHeading.text"
    /\ call.arg = HeadingD001Q002
    /\ ~Opt(call.opt, "mesh_trees")

\* C4 as claimed: the heading is rendered 'D001* (Name1*)/Q002 (Name2)'.
C4_ClaimedRendering ==
    DirectRenderingOfD001Q002 =>
        call.res = Ok(sD001 \o <<"*", " ", "(">> \o sName1 \o <<"*", ")", "/">> \o
                      sQ002 \o <<" ", "(">> \o sName2 \o <<")">>)

\* C4 as amended: the heading is rendered 'D001*/Q002 (Name1*/Name2)':
\* identifiers first, joined by '/', then the names joined by '/' in one
\* pair of parentheses.
C4_DirectRendering ==
    DirectRenderingOfD001Q002 =>
        call.res = Ok(sD001 \o <<"*", "/">> \o sQ002 \o <<" ", "(">> \o
                      sName1 \o <<"*", "/">> \o sName2 \o <<")">>)

C4_Witness == DirectRenderingOfD001Q002 /\ IsOk(call.res)

\* the citation 'Study X' with sections BACKGROUND and RESULTS whose texts
\* hold more than whitespace, rendered with default options
StudyXByDefault ==
    /\ call.op = "Citation.text"
    /\ call.opt \in {None, With({})}
    /\ call.arg.title = sStudyX
    /\ Len(call.arg.sections) = 2
    /\ call.arg.sections[1].label = sBACKGROUND
    /\ call.arg.sections[2].label = sRESULTS
    /\ StripNonEmpty(call.arg.sections[1].text)
    /\ StripNonEmpty(call.arg.sections[2].text)

\* C5 as claimed: the text is 'Study X\nBACKGROUND: t1\nRESULTS: t2'.
C5_ClaimedPlainText ==
    StudyXByDefault =>
        call.res = Ok(sStudyX \o <<"\n">> \o
                      sBACKGROUND \o <<":", " ">> \o call.arg.sections[1].text \o
                      <<"\n">> \o
                      sRESULTS \o <<":", " ">> \o call.arg.sections[2].text)

\* C5 as amended: the text is 'Study X\nBACKGROUND:\nt1\nRESULTS:\nt2\n':
\* each label and its colon stand on a line of their own, the section text
\* follows on the next line, and the whole text ends with a newline (one
\* is added unless t2 already ends with one).
C5_DefaultPlainText ==
    StudyXByDefault =>
        call.res = Ok(sStudyX \o <<"\n">> \o
                      sBACKGROUND \o <<":", "\n">> \o call.arg.sections[1].text \o
                      <<"\n">> \o
                      sRESULTS \o <<":", "\n">> \o call.arg.sections[2].text \o
                      (IF EndsWith(call.arg.sections[2].text, "\n")
                       THEN <<>> ELSE <<"\n">>))

C5_Witness ==
    /\ StudyXByDefault
    /\ IsOk(call.res)
    /\ ~EndsWith(call.arg.sections[2].text, "\n")


---------------------------------------------------------------------------
(* Properties of process_stream and of the extraction *)

\* Citation.from_xml is reached for the event at index i and raises
ExtractionRaisesAt(i) ==
    /\ IsCitationEnd(stream[i])
    /\ IsOk(skip_citation(stream[i].element, run_options))
    /\ ~skip_citation(stream[i].element, run_options).val
    /\ ~IsOk(Citation_from_xml(stream[i].element))

\* the event at index i is the end of a citation element that is not
\* skipped and that Citation.from_xml extracts
Extractable(i) ==
    /\ IsCitationEnd(stream[i])
    /\ IsOk(skip_citation(stream[i].element, run_options))
    /\ ~skip_citation(stream[i].element, run_options).val
    /\ IsOk(Citation_from_xml(stream[i].element))

WrittenIndices == {written[k].index : k \in 1..Len(written)}

\* C6: once process_stream has ended, a citation element for which
\* Citation.from_xml raised has been cleared all the same, and every
\* extractable citation element after it has been written: one malformed
\* citation does not abort the stream.
C6_MalformedCitationDoesNotAbort ==
    pc \in {"done", "raised"} =>
        \A i \in 1..Len(stream) :
            (i <= pos /\ ExtractionRaisesAt(i)) =>
                /\ i \in cleared
                /\ \A j \in (i + 1)..Len(stream) :
                       Extractable(j) => j \in WrittenIndices

\* the Article of a citation element that has exactly one
ArticleOf(e) == findall(e, "Article")[1]

\* the elements of TitleElements with at most one title of each kind
SingleTitles(e) ==
    /\ e \in TitleElements
    /\ Len(findall(ArticleOf(e), "ArticleTitle")) <= 1
    /\ Len(findall(ArticleOf(e), "VernacularTitle")) <= 1

\* the text of the only child with that tag, '' when there is none
TitleText(article, tag) ==
    IF findall(article, tag) = <<>> THEN <<>>
    ELSE inner_text(findall(article, tag)[1])

\* the title that the resolution order gives
ResolvedTitle(article) ==
    IF TitleText(article, "ArticleTitle") # <<>>
    THEN TitleText(article, "ArticleTitle")
    ELSE TitleText(article, "VernacularTitle")

\* C7: for a citation element that is well-formed but for its titles,
\* Citation.from_xml succeeds, and the title is the text of ArticleTitle
\* when that is present and not empty, else the text of VernacularTitle,
\* else the empty string (ArticleTitle absent or empty; VernacularTitle
\* absent or empty).
C7_TitleResolution ==
    (call.op = "Citation.from_xml" /\ SingleTitles(call.arg)) =>
        /\ IsOk(call.res)
        /\ call.res.val.title = ResolvedTitle(ArticleOf(call.arg))

\* the citation elements with one Article that has at most one Abstract
OneArticle(e) ==
    /\ Len(findall(e, "Article")) = 1
    /\ Len(findall(ArticleOf(e), "Abstract")) <= 1

\* the containers that abstract resolution looks at, in its order
Containers(e) == findall(ArticleOf(e), "Abstract") \o findall(e, "OtherAbstract")

\* C8: Citation.from_xml yields no Citation when the resolved abstract
\* container (the Abstract of the Article, else the first OtherAbstract)
\* has no AbstractText block; a citation element with neither container,
\* well-formed otherwise, is extracted with an empty sequence of sections.
C8_EmptyContainerFails ==
    (call.op = "Citation.from_xml" /\ OneArticle(call.arg)) =>
        /\ (/\ Containers(call.arg) # <<>>
            /\ findall(Containers(call.arg)[1], "AbstractText") = <<>>)
               => ~IsOk(call.res)
        /\ (call.arg \in AbstractElements /\ Containers(call.arg) = <<>>)
               => (IsOk(call.res) /\ call.res.val.sections = <<>>)

\* Citation.from_xml has failed on the assertion for an element whose
\* resolved container is an OtherAbstract without blocks
C8_Witness ==
    /\ call.op = "Citation.from_xml"
    /\ OneArticle(call.arg)
    /\ findall(ArticleOf(call.arg), "Abstract") = <<>>
    /\ findall(call.arg, "OtherAbstract") = <<Other0, Other1>>
    /\ call.res.exc = "AssertionError"

\* C9: find_abstract on a citation element with one Article returns the
\* Abstract of the Article when there is exactly one, whatever
\* OtherAbstract elements there are; without an Abstract it returns the
\* first OtherAbstract of the citation element, also when there are
\* several; with neither it returns None.
C9_AbstractResolution ==
    (call.op = "find_abstract" /\ OneArticle(call.arg)) =>
        /\ IsOk(call.res)
        /\ call.res.val = IF Containers(call.arg) = <<>> THEN None
                          ELSE Containers(call.arg)[1]

\* find_abstract has returned the first of two OtherAbstract elements
C9_Witness ==
    /\ call.op = "find_abstract"
    /\ OneArticle(call.arg)
    /\ findall(ArticleOf(call.arg), "Abstract") = <<>>
    /\ findall(call.arg, "OtherAbstract") = <<Other2, Other1>>
    /\ IsOk(call.res)
    /\ call.res.val = Other2

\* a label that counts as empty: missing, '' or 'UNLABELLED'
EmptyLabel(label) == label \in {NoneStr, <<>>, sUNLABELLED}

\* a text that counts as empty: missing, '' or white space only
EmptyText(text) == text = NoneStr \/ ~StripNonEmpty(text)

\* C10: no construction path yields a section whose label and text are
\* both empty: the AbstractSection constructor fails on such arguments,
\* and so does AbstractSection.from_xml on such an AbstractText element.
C10_EmptySectionRejected ==
    /\ (/\ call.op = "AbstractSection"
        /\ EmptyText(call.arg[1])
        /\ EmptyLabel(call.arg[2])) => ~IsOk(call.res)
    /\ (/\ call.op = "AbstractSection.from_xml"
        /\ EmptyText(inner_text(call.arg))
        /\ EmptyLabel(AttribGet(call.arg, "Label"))) => ~IsOk(call.res)

\* the section that a block stands for: its text, '' when that is white
\* space only, and its label, '' when that is missing or 'UNLABELLED'
SectionOfBlock(b) ==
    [text  |-> IF EmptyText(inner_text(b)) THEN <<>> ELSE inner_text(b),
     label |-> IF EmptyLabel(AttribGet(b, "Label")) THEN <<>>
               ELSE AttribGet(b, "Label")]

\* the blocks that are not empty in both text and label, in document order
KeptBlocks(blocks) ==
    SelectSeq(blocks, LAMBDA b : ~(EmptyText(inner_text(b)) /\
                                   EmptyLabel(AttribGet(b, "Label"))))

\* C11: the sections of an extracted Citation are, in document order, one
\* section per AbstractText block of the resolved container, the blocks
\* with empty text and empty label left out without failure; 'UNLABELLED'
\* is stored as the empty label, and no section is empty in both.
C11_SectionPerBlock ==
    (/\ call.op = "Citation.from_xml"
     /\ IsOk(call.res)
     /\ OneArticle(call.arg)
     /\ Containers(call.arg) # <<>>) =>
        /\ Len(call.res.val.sections) =
               Len(KeptBlocks(findall(Containers(call.arg)[1], "AbstractText")))
        /\ \A i \in 1..Len(call.res.val.sections) :
            /\ call.res.val.sections[i] =
                   SectionOfBlock(KeptBlocks(findall(Containers(call.arg)[1],
                                                     "AbstractText"))[i])
            /\ call.res.val.sections[i].label # sUNLABELLED
            /\ ~(call.res.val.sections[i].text = <<>> /\
                 call.res.val.sections[i].label = <<>>)

\* a Citation was extracted from a container whose first block is empty
\* and unlabelled and whose second block has a text and a label
C11_Witness ==
    /\ call.op = "Citation.from_xml"
    /\ IsOk(call.res)
    /\ OneArticle(call.arg)
    /\ Containers(call.arg) # <<>>
    /\ findall(Containers(call.arg)[1], "AbstractText") =
           <<AbstractText(<<" ">>, sUNLABELLED), AbstractText(<<"y">>, sL)>>
    /\ call.res.val.sections = <<[text |-> <<"y">>, label |-> sL]>>

---------------------------------------------------------------------------
(* Properties of the transducer and of the mapping table *)

\* the characters beyond 7-bit ASCII that occur in the inputs, with their
\* escape forms
EscapeForms ==
    ("U+00E9" :> <<"<", "0", "0", "E", "9", ">">>) @@
    ("U+00D7" :> <<"<", "0", "0", "D", "7", ">">>) @@
    ("U+03B1" :> <<"<", "0", "3", "B", "1", ">">>) @@
    ("U+1D6FC" :> <<"<", "1", "D", "6", "F", "C", ">">>)

EightBit == DOMAIN EscapeForms

\* the alphanumerics and the underscore among the characters of the inputs
WordCharacters == {"a", "b", "2", "_", "U+00E9", "U+03B1", "U+1D6FC"}

\* the space of a marker whose neighbour is the i-th character of the line
SpaceBeside(line, i) ==
    IF i \in 1..Len(line) /\ line[i] \in WordCharacters THEN <<" ">> ELSE <<>>

HasLeadingMarker(entry) == entry # <<>> /\ entry[1] = cBS
HasTrailingMarker(entry) == Len(entry) >= 2 /\ entry[Len(entry)] = cBS

\* the entry without its markers
WithoutMarkers(entry) ==
    SubSeq(entry, IF HasLeadingMarker(entry) THEN 2 ELSE 1,
           IF HasTrailingMarker(entry) THEN Len(entry) - 1 ELSE Len(entry))

\* what is written for the i-th character of a line
ExpectedPiece(line, i, table) ==
    IF line[i] \notin EightBit THEN <<line[i]>>
    ELSE IF line[i] \notin DOMAIN table THEN EscapeForms[line[i]]
    ELSE (IF HasLeadingMarker(table[line[i]])
          THEN SpaceBeside(line, i - 1) ELSE <<>>)
         \o WithoutMarkers(table[line[i]]) \o
         (IF HasTrailingMarker(table[line[i]])
          THEN SpaceBeside(line, i + 1) ELSE <<>>)

ExpectedLine(line, table) ==
    Flatten([i \in 1..Len(line) |-> ExpectedPiece(line, i, table)])

ExpectedOut(f, table) ==
    Flatten([k \in 1..Len(f) |-> ExpectedLine(f[k], table)])

\* the positions of a file that hold the character c without an entry
Unmapped(f, table, c) ==
    {<<k, i>> \in (1..Len(f)) \X (1..(MaxLineLen + 2)) :
        i <= Len(f[k]) /\ f[k][i] = c /\ c \in EightBit /\ c \notin DOMAIN table}

UnmappedCount(f, table) ==
    Cardinality(UNION {Unmapped(f, table, c) : c \in EightBit})

\* every character of the file is a 7-bit character
SevenBitOnly(f) ==
    \A k \in 1..Len(f) : \A i \in 1..Len(f[k]) : f[k][i] \notin EightBit

\* C12: process on an input of characters below 128 writes the input
\* unchanged, returns 0 and leaves the tally of missing characters as it
\* was, whatever the mapping table is.
C12_SevenBitUnchanged ==
    [][(call'.op = "process" /\ SevenBitOnly(call'.arg)) =>
           /\ call'.res.val.out = Flatten(call'.arg)
           /\ call'.res.val.count = 0
           /\ missing_mapping' = missing_mapping]_vars

\* 'a a' went through a table with an entry for 'a' after characters
\* without mapping had been tallied
C12_Witness ==
    /\ call.op = "process"
    /\ call.arg = << <<"a", " ", "a">> >>
    /\ "a" \in DOMAIN call.opt
    /\ call.res.val.out = <<"a", " ", "a">>
    /\ call.res.val.count = 0
    /\ missing_mapping # <<>>

\* every entry of the table is one leading marker and a text without marker
LeadingMarkerOnly(table) ==
    /\ DOMAIN table # {}
    /\ \A c \in DOMAIN table :
        /\ HasLeadingMarker(table[c])
        /\ \A i \in 2..Len(table[c]) : table[c][i] # cBS

\* every character beyond 7-bit ASCII of the file has an entry
AllMapped(f, table) == UnmappedCount(f, table) = 0

\* C13: for an entry that is one leading marker and a text T, the
\* transducer writes ' ' + T when the character before the mapped one in
\* the line is a word character, and T alone when there is none or it is
\* no word character: with T = 'and', 'a<char>b' gives 'a andb' and
\* ' <char>b' gives ' andb'.
C13_LeadingMarker ==
    (/\ call.op = "process"
     /\ LeadingMarkerOnly(call.opt)
     /\ AllMapped(call.arg, call.opt)) =>
        /\ call.res.val.out = ExpectedOut(call.arg, call.opt)
        /\ (call.arg = << <<" ", cE9, "b">> >> /\ call.opt[cE9] = <<cBS>> \o sAnd)
               => call.res.val.out = <<" ", "a", "n", "d", "b">>

\* 'a<char>b' was transduced to 'a andb'
C13_Witness ==
    /\ call.op = "process"
    /\ LeadingMarkerOnly(call.opt)
    /\ call.arg = << <<"a", cE9, "b">> >>
    /\ call.opt[cE9] = <<cBS>> \o sAnd
    /\ call.res.val.out = <<"a", " ", "a", "n", "d", "b">>

\* some entry of the table has a leading and a trailing marker
BothMarkers(table) ==
    \E c \in DOMAIN table :
        HasLeadingMarker(table[c]) /\ HasTrailingMarker(table[c])

\* C14: the two markers of an entry are resolved each on its own, the
\* leading one by the input character before the mapped character and the
\* trailing one by the input character after it, never by what was written
\* for a neighbour; at the start or the end of the line the marker is
\* removed.
C14_MarkersIndependent ==
    (call.op = "process" /\ BothMarkers(call.opt)) =>
        call.res.val.out = ExpectedOut(call.arg, call.opt)

\* the multiplication sign followed a letter that was escaped: the space
\* is there for the letter, not for the '>' that was written
C14_Witness ==
    /\ call.op = "process"
    /\ call.opt = (cD7 :> <<cBS, "x", cBS>>)
    /\ call.arg = << <<cE9, cD7, " ">> >>
    /\ call.res.val.out = <<"<", "0", "0", "E", "9", ">", " ", "x", " ">>

\* C15: process returns the number of characters of code 128 or more that
\* have no entry, writes each of them as '<' + code point in upper-case
\* hexadecimal of at least four digits + '>', and writes every character
\* with an entry as its replacement without counting it.
C15_CountAndEscape ==
    call.op = "process" =>
        /\ call.res.val.count = UnmappedCount(call.arg, call.opt)
        /\ call.res.val.out = ExpectedOut(call.arg, call.opt)

\* a line with an escaped and a replaced character
C15_Witness ==
    /\ call.op = "process"
    /\ call.arg = << <<cD7, cE9>> >>
    /\ call.opt = (cE9 :> <<"e">>)
    /\ call.res.val.out = <<"<", "0", "0", "D", "7", ">", "e">>
    /\ call.res.val.count = 1

\* C16: over the calls of the transducer the tally of missing characters
\* holds, for each character, the number of its occurrences without
\* mapping in all calls so far: each call adds the occurrences of its
\* input, nothing else changes the tally, no entry decreases or is
\* removed, and the sum of the tally is the sum of the counts returned.
C16_TallyAccumulates ==
    /\ [](returned = DictSum(missing_mapping))
    /\ [][/\ DictKeys(missing_mapping) \subseteq DictKeys(missing_mapping')
          /\ \A c \in EightBit :
                DictGet(missing_mapping', c) =
                    DictGet(missing_mapping, c) +
                    (IF call'.op = "process"
                     THEN Cardinality(Unmapped(call'.arg, call'.opt, c))
                     ELSE 0)]_vars

\* a later call has added to an entry that an earlier call made
C16_Witness ==
    /\ call.op = "process"
    /\ call.res.val.count = 1
    /\ Len(missing_mapping) = 2
    /\ DictGet(missing_mapping, cD7) = 2
    /\ returned = 3

\* C17: the summaries of the characters without mapping, the one of the
\* extractor and the one of the transducer script, list the characters by
\* descending count.
C17_SummaryDescending ==
    call.op \in {"print_summary", "write_to_ascii_statistics"} =>
        \A i \in 1..Len(call.res.val) : \A j \in i..Len(call.res.val) :
            call.res.val[i].value >= call.res.val[j].value

\* the code point and the replacement of the well-formed lines that are
\* no comment
WellFormed ==
    (<<"0", "0", "E", "9", "\t", "e", "\n">> :> [code |-> 233, text |-> "e"]) @@
    (<<"0", "0", "E", "9", "\t", "E", "\n">> :> [code |-> 233, text |-> "E"]) @@
    (<<"0", "0", "e", "9", "\t", "e", "\n">> :> [code |-> 233, text |-> "e"]) @@
    (<<"0", "0", "E", "9", "\t", "\\", "n", "\n">> :>
        [code |-> 233, text |-> "\\n"]) @@
    (<<"0", "0", "D", "7", "\t", "\\", "b", "x", "\\", "b", "\n">> :>
        [code |-> 215, text |-> "\\bx\\b"]) @@
    (<<"0", "0", "E", "9", "\t", "\\", "b", "a", "n", "d", "\n">> :>
        [code |-> 233, text |-> "\\band"]) @@
    (<<"1", "D", "6", "F", "C", "\t", "y">> :> [code |-> 120572, text |-> "y"])

IsComment(l) == l # <<>> /\ l[1] = "#"

\* two lines of the file register different replacements for a code point
Conflicting(f) ==
    \E i, j \in 1..Len(f) :
        /\ ~IsComment(f[i])
        /\ ~IsComment(f[j])
        /\ WellFormed[f[i]].code = WellFormed[f[j]].code
        /\ WellFormed[f[i]].text # WellFormed[f[j]].text

\* C18: read_mapping on well-formed lines skips the lines that begin with
\* '#' and fails exactly when two lines register different replacements
\* for one code point; a code point that comes again with the same
\* replacement, escapes included, is accepted.
C18_FailsOnConflictOnly ==
    (/\ call.op = "read_mapping"
     /\ \A i \in 1..Len(call.arg) :
            IsComment(call.arg[i]) \/ call.arg[i] \in DOMAIN WellFormed) =>
        (IsOk(call.res) <=> ~Conflicting(call.arg))

---------------------------------------------------------------------------
(* Properties of the run with ASCII mapping *)

\* read_mapping has raised inside to_ascii: the run ends in write_citation
\* with the assertion of a line that is no entry
LoadFailure ==
    /\ pc = "raised"
    /\ call.op = "write_citation"
    /\ call.res.exc = "AssertionError"
    /\ ~to_ascii_mapping.loaded

\* C19 (as claimed): when ASCII mapping is requested and entities.dat is
\* malformed, the run aborts before any citation is processed: nothing is
\* counted as output or skipped, nothing is written, the run does not end
\* normally, and the load failure does not come after the extraction of a
\* citation.
C19_AbortsBeforeAnyRecord ==
    (Opt(run_options, "ascii") /\ entities = EntitiesMalformed) =>
        /\ output_count = 0
        /\ skipped_count = 0
        /\ written = <<>>
        /\ pc # "done"
        /\ LoadFailure => ~IsOk(Citation_from_xml(call.arg))

---------------------------------------------------------------------------
(* Properties of the expansion of a heading that the registry lacks *)

\* the step is a call of tree_numbers on a heading whose descriptor
\* identifier is no key of the registry
UnknownDescriptorCall ==
    /\ call.op = "none"
    /\ call'.op = "tree_numbers"
    /\ call'.arg.descriptor.id \notin DOMAIN mesh

---------------------------------------------------------------------------
(* Properties of the rendering of expanded entries *)

\* the ancestor codes of a hierarchy code: its first character and its
\* prefixes of 1..n segments
AncestorCodes(t) ==
    {<<t[1]>>} \cup {SegmentsPrefix(t, k) : k \in 1..NumSegments(t)}

\* the hierarchy codes of the entries of a registry
RegistryCodes(reg) == UNION {CodesOf(reg[u]) : u \in DOMAIN reg}

\* the ancestor codes of the hierarchy codes of the descriptor of a heading
HeadingAncestors(h, reg) ==
    UNION {AncestorCodes(reg[h.descriptor.id].treenums[i]) :
              i \in 1..Len(reg[h.descriptor.id].treenums)}

\* the (ancestor-code, qualifier) keys of a heading in the order in which
\* qualifiers, then hierarchy codes, then ancestors are iterated
KeysInIterationOrder(h, reg) ==
    LET quals == IF h.qualifiers = <<>> THEN <<None>> ELSE h.qualifiers
        codes == reg[h.descriptor.id].treenums
        chain(t) == << <<t[1]>> >> \o [k \in 1..NumSegments(t) |-> SegmentsPrefix(t, k)]
    IN  Flatten([i \in 1..Len(quals) |->
            Flatten([j \in 1..Len(codes) |->
                [k \in 1..Len(chain(codes[j])) |-> <<chain(codes[j])[k], quals[i]>>]])])

\* '<code>[/<qualifier-id>] (<name>[/<qualifier-name>])' for a key, the
\* name taken from the index
RenderedKey(key, index) ==
    IF key[2] = None
    THEN key[1] \o <<" ", "(">> \o index[key[1]] \o <<")">>
    ELSE key[1] \o <<"/">> \o key[2].id \o <<" ", "(">> \o index[key[1]] \o
         <<"/">> \o key[2].name \o <<")">>

\* the entries expected of a heading: one per retained key, in order
RenderedKeys(keys, index) ==
    [i \in 1..Len(keys) |-> RenderedKey(keys[i], index)]

\* C21: expanding a heading whose descriptor is in the registry fails with
\* KeyError exactly when some ancestor code of one of its hierarchy codes,
\* the one-character root included, is no hierarchy code of a registry
\* entry; otherwise every retained (ancestor-code, qualifier) key is
\* rendered '<code>[/<qualifier-id>] (<name>[/<qualifier-name>])' with the
\* name that the derived index has for that code.
C21_RenderedOrUnknownCode ==
    (call.op = "tree_numbers" /\ call.arg.descriptor.id \in DOMAIN mesh) =>
        /\ call.res.exc \in {"None", "KeyError"}
        /\ call.res.exc = "KeyError" <=>
              \E t \in HeadingAncestors(call.arg, mesh) : t \notin RegistryCodes(mesh)
        /\ IsOk(call.res) =>
              call.res.val =
                  RenderedKeys(FirstOccurrences(KeysInIterationOrder(call.arg, mesh), <<>>),
                               mesh_cache.treenum_to_name)

\* a heading with two qualifiers whose hierarchy code D1.1.1 has the root D
\* but not the parent D1 among the codes of the registry has been expanded
C21_Witness ==
    /\ call.op = "tree_numbers"
    /\ mesh = RegGap
    /\ call.arg = MeshHeading(Descriptor(sD004, <<"N","4">>, TRUE), <<Q1T, Q2F>>)
    /\ call.res.exc = "KeyError"

\* a heading with every major-topic flag cleared
WithoutMajor(h) ==
    MeshHeading(Descriptor(h.descriptor.id, h.descriptor.name, FALSE),
                [i \in 1..Len(h.qualifiers) |->
                    Qualifier(h.qualifiers[i].id, h.qualifiers[i].name, FALSE)])

\* C22: the sequence that tree_numbers returns does not depend on the
\* major-topic flags of the heading: it is what the heading returns with
\* every flag cleared, so that two headings that differ in flags only
\* expand to the same output.
C22_FlagsNotPropagated ==
    call.op = "tree_numbers" =>
        call.res = tree_numbers(WithoutMajor(call.arg), mesh,
                                mesh_cache.treenum_to_name)

---------------------------------------------------------------------------
(* Properties of date_string *)

\* the text of the first child with that tag; None when there is no such
\* child or when the first one has no text
FirstText(e, tag) ==
    IF \A i \in 1..Len(e.children) : e.children[i].tag # tag THEN NoneStr
    ELSE e.children[CHOOSE i \in 1..Len(e.children) :
                       /\ e.children[i].tag = tag
                       /\ \A j \in 1..(i - 1) : e.children[j].tag # tag].text

\* the twelve month names of the table, in calendar order
MonthNames ==
    << <<"J","a","n">>, <<"F","e","b">>, <<"M","a","r">>, <<"A","p","r">>,
       <<"M","a","y">>, <<"J","u","n">>, <<"J","u","l">>, <<"A","u","g">>,
       <<"S","e","p">>, <<"O","c","t">>, <<"N","o","v">>, <<"D","e","c">> >>

DigitChars == <<"0", "1", "2", "3", "4", "5", "6", "7", "8", "9">>

\* the number of a month in two digits
TwoDigits(n) == <<DigitChars[(n \div 10) + 1], DigitChars[(n % 10) + 1]>>

\* the month that the date shows: a name of the table by its number, any
\* other month as it is
ShownMonth(m) ==
    IF \E n \in 1..12 : MonthNames[n] = m
    THEN TwoDigits(CHOOSE n \in 1..12 : MonthNames[n] = m)
    ELSE m

\* the date expected of an element, a field being missing when its first
\* occurrence is absent or has no text
ExpectedDate(e) ==
    IF FirstText(e, "MedlineDate") # NoneStr THEN FirstText(e, "MedlineDate")
    ELSE IF FirstText(e, "Year") = NoneStr THEN <<>>
    ELSE IF FirstText(e, "Month") = NoneStr THEN FirstText(e, "Year")
    ELSE IF FirstText(e, "Day") = NoneStr
    THEN FirstText(e, "Year") \o <<"-">> \o ShownMonth(FirstText(e, "Month"))
    ELSE FirstText(e, "Year") \o <<"-">> \o ShownMonth(FirstText(e, "Month")) \o
         <<"-">> \o FirstText(e, "Day")

\* C23: date_string returns, from the first occurrence of each field, the
\* MedlineDate text if there is one; else '' without Year; else the Year
\* without Month; else 'Year-Month' without Day; else 'Year-Month-Day'; a
\* Month named Jan..Dec is shown as 01..12 and any other Month as it is;
\* the call never fails.
C23_DateString ==
    call.op = "date_string" => call.res = Ok(ExpectedDate(call.arg))

\* a date with a repeated Year, a Month by name and no Day has been
\* formatted: the first Year, the number of the month
C23_Witness ==
    /\ call.op = "date_string"
    /\ call.arg.children = <<Leaf("Year", s2001), Leaf("Month", <<"D", "e", "c">>),
                             Leaf("Year", <<"1", "9", "9", "9">>)>>
    /\ call.res = Ok(s2001 \o <<"-", "1", "2">>)

---------------------------------------------------------------------------
(* Properties of the PMID filters *)

\* no --PMID-greater-than, no --PMID-lower-than and no --ids
NoPMIDFilter ==
    /\ run_options.PMID_greater_than = NotGiven
    /\ run_options.PMID_lower_than = NotGiven
    /\ run_options.ids = NotGiven

\* the event at index i ends a citation element that Citation.from_xml
\* extracts, that --has-abstract does not exclude, and whose identifier is
\* a text that is not a number
OpaqueCitation(i) ==
    /\ IsCitationEnd(stream[i])
    /\ IsOk(Citation_from_xml(stream[i].element))
    /\ Citation_from_xml(stream[i].element).val.PMID # NoneStr
    /\ ~IsDigit(Citation_from_xml(stream[i].element).val.PMID)
    /\ IsOk(skip_no_abstract(stream[i].element, run_options))
    /\ ~skip_no_abstract(stream[i].element, run_options).val

\* C24: without PMID range and without ID list the identifier is never
\* read as a number: once the loop has reached a citation whose identifier
\* is not numeric and has gone on or ended, that citation has been written
\* under its unchanged identifier.
C24_IdentifierNeverParsed ==
    (NoPMIDFilter /\ pc \in {"running", "done", "raised"}) =>
        \A i \in 1..Len(stream) :
            (OpaqueCitation(i) /\ (i < pos \/ (i = pos /\ pc = "raised"))) =>
                \E k \in 1..Len(written) :
                    /\ written[k].index = i
                    /\ run_options.output_dir # "-" =>
                          written[k].file.name =
                              Citation_from_xml(stream[i].element).val.PMID \o sTxt

\* the loop has gone past the event at index i, or has ended at it with
\* an exception
Reached(i) == i < pos \/ (i = pos /\ pc = "raised")

\* the identifier of the citation element of the event at index i is a
\* number
NumericCitation(i) ==
    /\ IsCitationEnd(stream[i])
    /\ IsOk(find_only(stream[i].element, "PMID"))
    /\ find_only(stream[i].element, "PMID").val.text # NoneStr
    /\ IsDigit(find_only(stream[i].element, "PMID").val.text)

\* the number n passes every PMID filter that is given
PassesFilters(n) ==
    /\ \A gt \in run_options.PMID_greater_than : n > gt
    /\ \A lt \in run_options.PMID_lower_than : n < lt
    /\ \A ids \in run_options.ids : n \in ids

\* the citation of the event at index i does not pass the PMID filters
FilteredOut(i) ==
    /\ NumericCitation(i)
    /\ ~PassesFilters(DecimalValue(find_only(stream[i].element, "PMID").val.text))

\* C25: a citation is processed exactly when its PMID is above the
\* --PMID-greater-than bound, below the --PMID-lower-than bound and in the
\* --ids set, for each of these that is given, alone or together; a
\* citation that is not processed is skipped without error, cleared and
\* counted as skipped (runs without --has-abstract).
C25_PMIDFilters ==
    ~Opt(run_options, "has_abstract") =>
        /\ \A i \in 1..Len(stream) :
              (Reached(i) /\ FilteredOut(i)) => (i < pos /\ i \in cleared)
        /\ \A i \in 1..Len(stream) :
              (i < pos /\ NumericCitation(i) /\ ~FilteredOut(i)) =>
                  i \in WrittenIndices
        /\ skipped_count =
              Cardinality({i \in 1..Len(stream) : i < pos /\ FilteredOut(i)})

---------------------------------------------------------------------------
(* Properties of the transducer's output *)

\* C26: for any input and any loaded mapping table, every character that
\* process writes has a code below 128.
C26_OutputIsAscii ==
    call.op = "process" =>
        \A i \in 1..Len(call.res.val.out) : ord(call.res.val.out[i]) < 128


\* ------------------------------------------------------------------
\* Direct rendering of a heading
\* ------------------------------------------------------------------

\* a text followed by '*' exactly when the flag is set
Marked(text, major) == IF major THEN Append(text, "*") ELSE text

\* the string expected for the descriptor alone
ExpectedAlone(d) ==
    Marked(d.id, d.major) \o <<" ", "(">> \o Marked(d.name, d.major) \o <<")">>

\* the string expected for the descriptor with one qualifier
ExpectedWith(d, q) ==
    Marked(d.id, d.major) \o <<"/">> \o Marked(q.id, q.major) \o <<" ", "(">> \o
    Marked(d.name, d.major) \o <<"/">> \o Marked(q.name, q.major) \o <<")">>

\* C27: heading_texts returns one string per (descriptor, qualifier) pair in
\* qualifier order, a heading without qualifiers giving the single string of
\* the descriptor alone; '*' follows the descriptor's id and name exactly
\* when the descriptor is major and a qualifier's id and name exactly when
\* that qualifier is major.
C27_HeadingTexts ==
    call.op = "heading_texts" =>
        LET h == call.arg
            texts == call.res.val
            n == Len(h.qualifiers)
        IN  /\ IsOk(call.res)
            /\ Len(texts) = IF n = 0 THEN 1 ELSE n
            /\ n = 0 => texts[1] = ExpectedAlone(h.descriptor)
            /\ \A i \in 1..n :
                   texts[i] = ExpectedWith(h.descriptor, h.qualifiers[i])

\* a heading whose descriptor is not major has a major qualifier followed by
\* one that is not, and both strings are returned
C27_Witness ==
    /\ call.op = "heading_texts"
    /\ ~call.arg.descriptor.major
    /\ Len(call.arg.qualifiers) = 2
    /\ call.arg.qualifiers[1].major
    /\ ~call.arg.qualifiers[2].major
    /\ call.arg.qualifiers[1].id # call.arg.qualifiers[2].id
    /\ Len(call.res.val) = 2


\* ------------------------------------------------------------------
\* Every citation element is handled once
\* ------------------------------------------------------------------

\* the events below index n that end a MedlineCitation element
CitationEventsBelow(n) ==
    {i \in 1..(n - 1) :
        stream[i].event = "end" /\ stream[i].element.tag = "MedlineCitation"}

\* the to_ascii state of a run that has written nothing
AsciiFresh == AsciiState(NotLoaded, <<>>, <<>>, 0)

\* the file that writing the citation extracted from the element of event i
\* gives, for each derived index the run may have built
FilesOfEvent(i) ==
    {write_citation(Citation_from_xml(stream[i].element).val, run_options, mesh,
                    c.treenum_to_name, AsciiFresh, entities, compiles).val.file :
        c \in get_mesh_data}

\* C28: when process_stream has returned, output_count + skipped_count is
\* the number of citation end events of the stream, the written files are
\* one per counted output, in stream order, each for a different citation
\* event that skip_citation did not skip and each the file of the citation
\* extracted from the element of that event, and the elements of all
\* citation events have been cleared; at every point of the run the cleared
\* elements are those of the citation events already passed.
C28_EachCitationHandledOnce ==
    /\ pc # "raised" => cleared = CitationEventsBelow(pos)
    /\ pc = "done" =>
        /\ output_count + skipped_count =
               Cardinality(CitationEventsBelow(Len(stream) + 1))
        /\ Len(written) = output_count
        /\ \A k \in 1..Len(written) :
            /\ written[k].index \in CitationEventsBelow(Len(stream) + 1)
            /\ ~skip_citation(stream[written[k].index].element, run_options).val
            /\ written[k].file \in FilesOfEvent(written[k].index)
            /\ \A j \in 1..(k - 1) : written[j].index < written[k].index

\* a run has returned after skipping one citation and writing another
C28_Witness ==
    /\ pc = "done"
    /\ Len(stream) = 2
    /\ skipped_count = 1
    /\ output_count = 1
    /\ cleared = {1, 2}

=========================================================================
